---- MODULE Spec2Model ----
(***************************************************************************)
(* Model of the PocketOption session engine:                               *)
(*   pocketoptionapi/ws/client.py   WebsocketClient (connect, on_message,  *)
(*                                  websocket_listener), send_ping         *)
(*   pocketoptionapi/stable_api.py  PocketOption (connect, disconnect, buy,*)
(*                                  check_win, get_balance, get_candles,   *)
(*                                  process_data_history)                  *)
(*   indicators.py                  candle_cache, get_candles_with_retry   *)
(*   assets.py                      get_realtime_prices, extract_price     *)
(* Each PocketOption.connect() call starts a background thread that runs   *)
(* WebsocketClient.connect; the server (the environment) accepts or        *)
(* refuses sockets, sends frames and closes sockets.                       *)
(***************************************************************************)
EXTENDS Integers, Sequences, FiniteSets, TLC

\* ---------------------------------------------------------------- bounds
\* number of regional endpoints in the list REGION().get_regions(True)
\* returns; a region is named by its position in the list returned for the pass
NumRegions == 2
\* number of PocketOption.connect() calls the caller makes (threads started)
MaxCalls == 2
\* number of frames the server sends in a single-call run
MaxFrames == 3
\* number of frames the server sends in a run with several connect() calls
RaceFrames == 1
\* number of refusals and closes of the server in such a run
RaceFaults == 3
\* number of buy() calls the caller makes
MaxBuys == 2
\* number of order frames the server sends
MaxOrderFrames == 3
\* number of close-order frames the server sends
MaxCloseFrames == 3
\* number of balance frames the server sends
MaxBalanceFrames == 3
\* number of get_balance() calls the caller makes
MaxBalanceCalls == 2
\* number of candle lookups calculate_indicators makes
MaxLookups == 3
\* length of the point lists the aggregation is applied to
MaxPoints == 3
\* number of history frames the server sends
MaxHistoryFrames == 3
\* number of get_candles() calls the caller makes
MaxFetches == 2
\* number of assets get_realtime_prices is called with
MaxAssets == 2
\* number of frames the server sends to the listener
MaxListenFrames == 3
\* number of concurrent calculate_indicators callers
MaxCallers == 2
\* number of threads that call buy() on the session at the same time
MaxBuyers == 2
\* number of order frames the server sends to overlapping buy() calls
MaxOverlapFrames == 3
\* number of check_connection() calls the main loop makes
MaxChecks == 2
\* number of execute_trades() cycles the main loop runs
MaxCycles == 2
\* number of iterations of the main loop
MaxIterations == 4
\* number of orders open when the first cycle starts
MaxOpenOrders == 2
\* overlapping buy() calls start within this many polling periods
OverlapWindow == 1

\* ------------------------------------------------------ program constants
max_attempts == 5
BuyDeadline == 5
PollsPerSecond == 10
WinDeadline == 120
CandleTTL == 300
RetryAttempts == 5
BackoffMin == 2
BackoffMax == 15
DaySeconds == 86400
WaitRounds == 99
SemaphoreLimit == 10
TIMEFRAME == 60
IndTTL == 5 * TIMEFRAME
\* settings.py; percentages in 1/10000 of a percent, money in cents
TRADE_PERCENTAGE == 50000
TRADE_PERCENTAGE_MIN == 20000
TRADE_PERCENTAGE_MAX == 50000
TRADE_COOLDOWN == 300
DAILY_LOSS_LIMIT == 10
CONSECUTIVE_LOSSES_THRESHOLD == 2
CONSECUTIVE_WINS_THRESHOLD == 2
MAX_TRADE_AMOUNT == 500000

Threads == 1..MaxCalls
Regions == 1..NumRegions

\* ------------------------------------------------------------ Python values
PyNone == [kind |-> "none"]
PyBool(b) == [kind |-> "bool", v |-> b]
PyNum(n) == [kind |-> "num", v |-> n]
PyStr(s) == [kind |-> "str", v |-> s]
PyDict(r) == [kind |-> "dict", v |-> r]
PyList(s) == [kind |-> "list", v |-> s]
NotJson == [kind |-> "invalid"]

\* str.startswith
StartsWith(s, p) ==
  /\ Len(p) <= Len(s)
  /\ \A i \in 1..Len(p) : s[i] = p[i]

\* the `in` operator on strings
Contains(s, p) ==
  \E k \in 0..(Len(s) - Len(p)) : \A i \in 1..Len(p) : s[k + i] = p[i]

\* dict.get(key, None) for string-valued keys
DictGet(d, k) ==
  IF k \in DOMAIN d.v THEN PyStr(d.v[k]) ELSE PyNone

\* ------------------------------------------------------------------ frames
\* a frame is its text (a sequence of characters), what json.loads makes of
\* the text, and for 451- frames the event name json.loads finds in the part
\* after the first "-"
T_0 == <<"0">>
T_2 == <<"2">>
T_sid == <<"s","i","d">>
T_40 == <<"4","0">>
T_451 == <<"4","5","1","-","[">>
T_42 == <<"4","2">>
T_NotAuthorized == <<"N","o","t","A","u","t","h","o","r","i","z","e","d">>

Frame(n) ==
  CASE n = "open" ->
         [text |-> <<"0","{","\"","s","i","d","\"",":","\"","x","\"","}">>,
          json |-> NotJson, event |-> "-"]
    [] n = "ping" ->
         [text |-> <<"2">>, json |-> PyNum(2), event |-> "-"]
    [] n = "ack" ->
         [text |-> <<"4","0","{","\"","s","i","d","\"",":","\"","x","\"","}">>,
          json |-> NotJson, event |-> "-"]
    [] n = "successauth" ->
         [text |-> <<"4","5","1","-","[","\"","s","u","c","c","e","s","s",
                     "a","u","t","h","\"",",","{","}","]">>,
          json |-> NotJson, event |-> "successauth"]
    [] n = "notauth" ->
         [text |-> <<"4","2","[","\"","N","o","t","A","u","t","h","o","r",
                     "i","z","e","d","\"","]">>,
          json |-> NotJson, event |-> "-"]
    [] n = "successopenOrder" ->
         [text |-> <<"4","5","1","-","[","\"","s","u","c","c","e","s","s",
                     "o","p","e","n","O","r","d","e","r","\"",",","{","}","]">>,
          json |-> NotJson, event |-> "successopenOrder"]
    [] n = "buy_ok" ->
         [text |-> <<"{","\"","r","e","q","u","e","s","t","I","d","\"",":",
                     "\"","b","u","y","\"",",","\"","i","d","\"",":","\"",
                     "o","1","\"","}">>,
          json |-> PyDict([requestId |-> "buy", id |-> "o1"]), event |-> "-"]
    [] n = "buy_ok_o2" ->
         [text |-> <<"{","\"","r","e","q","u","e","s","t","I","d","\"",":",
                     "\"","b","u","y","\"",",","\"","i","d","\"",":","\"",
                     "o","2","\"","}">>,
          json |-> PyDict([requestId |-> "buy", id |-> "o2"]),
          event |-> "-"]
    [] n = "buy_ok_o3" ->
         [text |-> <<"{","\"","r","e","q","u","e","s","t","I","d","\"",":",
                     "\"","b","u","y","\"",",","\"","i","d","\"",":","\"",
                     "o","3","\"","}">>,
          json |-> PyDict([requestId |-> "buy", id |-> "o3"]),
          event |-> "-"]
    [] n = "buy_rejected" ->
         [text |-> <<"{","\"","r","e","q","u","e","s","t","I","d","\"",":",
                     "\"","b","u","y","\"",",","\"","e","r","r","o","r","\"",
                     ":","\"","e","\"","}">>,
          json |-> PyDict([requestId |-> "buy", error |-> "e"]), event |-> "-"]
    [] n = "successcloseOrder" ->
         [text |-> <<"4","5","1","-","[","\"","s","u","c","c","e","s","s",
                     "c","l","o","s","e","O","r","d","e","r","\"",",","{",
                     "}","]">>,
          json |-> NotJson,
          event |-> "successcloseOrder"]
    [] n = "deals_o1_win" ->
         [text |-> <<"{","\"","d","e","a","l","s","\"",":","[","{","\"","i",
                     "d","\"",":","\"","o","1","\"",",","\"","p","r","o",
                     "f","i","t","\"",":","5","}","]","}">>,
          json |-> PyDict([deals |-> <<[id |-> PyStr("o1"), profit |-> PyNum(5)]>>]),
          event |-> "-"]
    [] n = "deals_o1_lose" ->
         [text |-> <<"{","\"","d","e","a","l","s","\"",":","[","{","\"","i",
                     "d","\"",":","\"","o","1","\"",",","\"","p","r","o",
                     "f","i","t","\"",":","0","}","]","}">>,
          json |-> PyDict([deals |-> <<[id |-> PyStr("o1"), profit |-> PyNum(0)]>>]),
          event |-> "-"]
    [] n = "deals_o2_o1" ->
         [text |-> <<"{","\"","d","e","a","l","s","\"",":","[","{","\"","i",
                     "d","\"",":","\"","o","2","\"",",","\"","p","r","o",
                     "f","i","t","\"",":","5","}",",","{","\"","i","d","\"",
                     ":","\"","o","1","\"",",","\"","p","r","o","f","i","t",
                     "\"",":","5","}","]","}">>,
          json |-> PyDict([deals |-> <<[id |-> PyStr("o2"), profit |-> PyNum(5)],
                                     [id |-> PyStr("o1"), profit |-> PyNum(5)]>>]),
          event |-> "-"]
    [] n = "deals_o1_noprofit" ->
         [text |-> <<"{","\"","d","e","a","l","s","\"",":","[","{","\"","i",
                     "d","\"",":","\"","o","1","\"","}","]","}">>,
          json |-> PyDict([deals |-> <<[id |-> PyStr("o1")]>>]),
          event |-> "-"]
    [] n = "deals_empty" ->
         [text |-> <<"{","\"","d","e","a","l","s","\"",":","[","]","}">>,
          json |-> PyDict([deals |-> <<>>]),
          event |-> "-"]
    [] n = "successupdateBalance" ->
         [text |-> <<"4","5","1","-","[","\"","s","u","c","c","e","s","s",
                     "u","p","d","a","t","e","B","a","l","a","n","c","e",
                     "\"",",","{","}","]">>,
          json |-> NotJson,
          event |-> "successupdateBalance"]
    [] n = "balance_100" ->
         [text |-> <<"{","\"","u","i","d","\"",":","1",",","\"","b","a","l",
                     "a","n","c","e","\"",":","1","0","0",",","\"","i","s",
                     "D","e","m","o","\"",":","1","}">>,
          json |-> PyDict([uid |-> 1, balance |-> 100, isDemo |-> 1]),
          event |-> "-"]
    [] n = "balance_50" ->
         [text |-> <<"{","\"","b","a","l","a","n","c","e","\"",":","5","0",
                     ",","\"","i","s","D","e","m","o","\"",":","0","}">>,
          json |-> PyDict([balance |-> 50, isDemo |-> 0]),
          event |-> "-"]
    [] n = "balance_70_nodemo" ->
         [text |-> <<"{","\"","b","a","l","a","n","c","e","\"",":","7","0",
                     "}">>,
          json |-> PyDict([balance |-> 70]),
          event |-> "-"]
    [] n = "loadHistoryPeriod" ->
         [text |-> <<"4","5","1","-","[","\"","l","o","a","d","H","i","s",
                     "t","o","r","y","P","e","r","i","o","d","\"",",","{",
                     "}","]">>,
          json |-> NotJson,
          event |-> "loadHistoryPeriod"]
    [] n = "history_2pts" ->
         [text |-> <<"{","\"","d","a","t","a","\"",":","[","{","\"","t","i",
                     "m","e","\"",":","1","0","0",",","\"","p","r","i","c",
                     "e","\"",":","1",".","0","}",",","{","\"","t","i","m",
                     "e","\"",":","1","0","5",",","\"","p","r","i","c","e",
                     "\"",":","1",".","2","}","]","}">>,
          json |-> PyDict([data |-> <<[time |-> 100, price |-> 10],
                                    [time |-> 105, price |-> 12]>>]),
          event |-> "-"]
    [] n = "history_empty" ->
         [text |-> <<"{","\"","d","a","t","a","\"",":","[","]","}">>,
          json |-> PyDict([data |-> <<>>]),
          event |-> "-"]
    [] n = "history_nodata" ->
         [text |-> <<"{","\"","a","s","s","e","t","\"",":","\"","A","\"",
                     "}">>,
          json |-> PyDict([asset |-> "A"]),
          event |-> "-"]
    [] n = "updateClosedDeals" ->
         [text |-> <<"4","5","1","-","[","\"","u","p","d","a","t","e","C",
                     "l","o","s","e","d","D","e","a","l","s","\"",",","{",
                     "}","]">>,
          json |-> NotJson,
          event |-> "updateClosedDeals"]
    [] n = "updateStream" ->
         [text |-> <<"4","5","1","-","[","\"","u","p","d","a","t","e","S",
                     "t","r","e","a","m","\"",",","{","}","]">>,
          json |-> NotJson,
          event |-> "updateStream"]
    [] n = "updateHistoryNew" ->
         [text |-> <<"4","5","1","-","[","\"","u","p","d","a","t","e","H",
                     "i","s","t","o","r","y","N","e","w","\"",",","{","}",
                     "]">>,
          json |-> NotJson,
          event |-> "updateHistoryNew"]
    [] n = "stream_tick" ->
         [text |-> <<"[","[","\"","A","\"",",","1","7","0","0",",","1",".",
                     "1","]","]">>,
          json |-> PyList(<<<<"A", 1700, 11>>>>),
          event |-> "-"]
    [] n = "event_40sid" ->
         [text |-> <<"4","5","1","-","[","\"","u","p","d","a","t","e","S",
                     "t","r","e","a","m","\"",",","{","\"","s","i","d","\"",
                     ":","4","0","}","]">>,
          json |-> NotJson,
          event |-> "updateStream"]
    [] n = "json_40sid" ->
         [text |-> <<"{","\"","s","i","d","\"",":","\"","s","\"",",","\"",
                     "a","m","o","u","n","t","\"",":","4","0","}">>,
          json |-> PyDict([sid |-> "s", amount |-> 40]),
          event |-> "-"]
    [] n = "garbage" ->
         [text |-> <<"x","y","z">>,
          json |-> NotJson,
          event |-> "-"]

HandshakeFrames == {"open", "ping", "ack", "successauth", "notauth"}
BuyFrames == {"successopenOrder", "buy_ok", "buy_rejected"}
CloseFrames == {"successcloseOrder", "deals_o1_win", "deals_o1_lose",
                "deals_o2_o1", "deals_o1_noprofit", "deals_empty"}
HistoryFrames == {"loadHistoryPeriod", "history_2pts", "history_empty",
                  "history_nodata"}
BalanceFrames == {"successupdateBalance", "balance_100", "balance_50",
                  "balance_70_nodemo"}
\* frames of every kind the router tells apart: events that set an awaiting
\* flag, data frames (dict, list), frames that are not JSON, and frames
\* whose text holds the characters 40 and sid
RouterFrames == {"ack", "successcloseOrder", "loadHistoryPeriod",
                 "updateClosedDeals", "updateStream", "updateHistoryNew",
                 "stream_tick", "history_2pts", "history_nodata",
                 "balance_50", "balance_70_nodemo", "buy_ok", "event_40sid",
                 "json_40sid", "garbage"}

\* --------------------------------------------------------------- variables
VARIABLES
  websocket_is_connected,    \* global_value.websocket_is_connected
  check_websocket_if_error,  \* global_value.check_websocket_if_error
  ssl_Mutual_exclusion,      \* global_value.ssl_Mutual_exclusion
  gv,                        \* global_value: result, order_data, balance...
  wsc,                       \* WebsocketClient: awaiting-data flags
  apiv,                      \* PocketOptionAPI: order_async, history_data...
  tpc,                       \* position of each connect thread
  attempt,                   \* connect: attempt
  url,                       \* connect: index of url in the region list
  ret,                       \* connect: value returned
  sock,                      \* socket of each connect thread
  tasks,                     \* sender and ping tasks of the connection
  tried,                     \* regions each thread tried to open, in order
  authed,                    \* successauth was received on the thread's socket
  scen,                      \* progress of the open/ack/successauth sequence
  lastSent,                  \* what the last on_message call sent
  nauth,                     \* a NotAuthorized frame was received
  credAfterNauth,            \* the credential was sent after NotAuthorized
  pinged,                    \* a ping was sent on the thread's socket
  everOpened,                \* some socket-open attempt succeeded
  callPc,                    \* PocketOption.connect: position of the caller
  callRet,                   \* PocketOption.connect: value returned
  started,                   \* number of connect threads started
  callsLeft,                 \* connect() calls the caller still makes
  framesLeft,                \* frames the server still sends
  faultsLeft,                \* refusals and closes the server still makes
                             \* (-1: any number)
  teardown,                  \* PocketOption.disconnect: steps performed
  bpc,                       \* PocketOption.buy: position
  start_t,                   \* PocketOption.buy: start_t
  now,                       \* time.time(), in polls of 0.1 s
  bret,                      \* PocketOption.buy: value returned
  arrived,                   \* time both completion parts were first present
  buysLeft,                  \* buy() calls the caller still makes
  opsLeft,                   \* other API calls the caller still makes
  cw,                        \* PocketOption.check_win: position, id_number,
                             \* start_t, value returned, and whether the
                             \* tracked close-order record named id_number
  bal,                       \* PocketOption.get_balance: value last returned
  supplied,                  \* balances the balance data frames carried
  candle_cache,              \* indicators.candle_cache: key -> entry
  mono,                      \* the cache's timer, in seconds
  ci,                        \* calculate_indicators: the candle lookup, the
                             \* retry loop of get_candles_with_retry, and
                             \* what get_candles last returned for each key
  fetched,                   \* key -> time get_candles last returned a
                             \* series for it (-1: never)
  agg,                       \* the aggregation functions: input, results
  gc,                        \* PocketOption.get_candles: position, loop
                             \* index i, all_candles, value returned
  rp,                        \* assets.get_realtime_prices: position, the
                             \* fetch_price tasks, semaphore, prices, and
                             \* what get_candles returned for each asset
  ind,                       \* calculate_indicators: position, cache key,
                             \* the indicator cache of the running call,
                             \* whether the call was served from it, and the
                             \* time a bundle was last stored for each key
  cc,                        \* concurrent candle lookups on one event
                             \* loop: position, each caller's task and key,
                             \* and the fetches started for each key
  orders,                    \* for each buy command sent, the parts of
                             \* its answer the server has sent
  closed,                    \* the terminal records of the close-order
                             \* results on_message has stored
  ob,                        \* overlapping buy() calls: each caller's
                             \* position, start_t and value returned, and
                             \* the number of buy responses delivered
  ml,                        \* main: the UTC hour, the hour the loop
                             \* last read and what it did then
  trading_state,             \* trade.py: the TradingState object
  tr,                        \* execute_trades: position in the cycle, its
                             \* locals, and what it did to each order
  chk,                       \* check_connection: the value returned and
                             \* the state of the socket at the call
  listener                   \* websocket_listener: position, the frames
                             \* waiting in the socket, the frame on_message
                             \* is called with, and the logs of the frames
                             \* received and of the frames taken

connVars == <<websocket_is_connected, check_websocket_if_error, tpc, attempt,
              url, ret, sock, tasks, tried>>
routerVars == <<ssl_Mutual_exclusion, gv, wsc, apiv>>
histVars == <<authed, scen, lastSent, nauth, credAfterNauth, pinged,
             everOpened>>
callVars == <<callPc, callRet, started, callsLeft>>
buyVars == <<bpc, start_t, now, bret, arrived, buysLeft>>
winVars == <<cw>>
balVars == <<bal, supplied>>
cacheVars == <<candle_cache, mono, ci, fetched>>
aggVars == <<agg>>
fetchVars == <<gc>>
priceVars == <<rp>>
listenVars == <<listener>>
indVars == <<ind>>
ccVars == <<cc>>
obVars == <<ob, orders, closed>>
mainVars == <<chk, trading_state, tr, ml>>
opVars == <<opsLeft, winVars, balVars, cacheVars, aggVars, fetchVars,
           priceVars, listenVars, indVars, ccVars, obVars,
           mainVars>>
notWin == <<balVars, cacheVars, aggVars, fetchVars, priceVars, listenVars,
           indVars, ccVars, obVars,
           mainVars>>
notBal == <<winVars, cacheVars, aggVars, fetchVars, priceVars, listenVars,
           indVars, ccVars, obVars,
           mainVars>>
notCache == <<winVars, balVars, aggVars, fetchVars, priceVars, listenVars,
             indVars, ccVars, obVars,
           mainVars>>
notAgg == <<winVars, balVars, cacheVars, fetchVars, priceVars, listenVars,
           indVars, ccVars, obVars,
           mainVars>>
notFetch == <<winVars, balVars, cacheVars, aggVars, listenVars, indVars,
             ccVars, obVars,
           mainVars>>
notListen == <<winVars, balVars, cacheVars, aggVars, fetchVars, priceVars,
              indVars, ccVars, obVars,
           mainVars>>
notInd == <<winVars, balVars, aggVars, fetchVars, priceVars, listenVars,
           ccVars, obVars,
           mainVars>>
notCc == <<winVars, balVars, aggVars, priceVars, listenVars, indVars,
          obVars,
           mainVars>>
notOb == <<winVars, balVars, cacheVars, aggVars, fetchVars, priceVars,
          listenVars, indVars, ccVars, mainVars>>
notMain == <<winVars, balVars, cacheVars, aggVars, fetchVars, priceVars,
            listenVars, indVars, ccVars, obVars>>
vars == <<connVars, routerVars, histVars, callVars, framesLeft, faultsLeft,
          teardown, buyVars, opVars>>


\* ------------------------------------------------------------ on_message
\* the if/elif chain of on_message (client.py 174-231), in source order
Branch(m) ==
  IF StartsWith(m.text, T_0) /\ Contains(m.text, T_sid) THEN "open"
  ELSE IF m.text = T_2 THEN "ping"
  ELSE IF Contains(m.text, T_40) /\ Contains(m.text, T_sid) THEN "ack"
  ELSE IF StartsWith(m.text, T_451) THEN "event"
  ELSE IF StartsWith(m.text, T_42) /\ Contains(m.text, T_NotAuthorized)
       THEN "notauth"
  ELSE "none"

\* event_type of a 451- frame ("-" when the event branch is not taken)
EventType(m) == IF Branch(m) = "event" THEN m.event ELSE "-"

\* the JSON stage (client.py 234-275) is reached by every branch but the
\* NotAuthorized one (return) and the event one (message was rebound to the
\* parsed list, json.loads(list) raises TypeError into the outer except)
JsonData(m) ==
  IF Branch(m) \in {"open", "ping", "ack", "none"} THEN m.json ELSE NotJson

\* DataBranch with the history test before the close-order test
DataBranch_HistoryFirst(m) ==
  LET d == JsonData(m) IN
  IF d.kind # "dict" THEN "none"
  ELSE IF "balance" \in DOMAIN d.v THEN "balance"
  ELSE IF "requestId" \in DOMAIN d.v /\ d.v.requestId = "buy" THEN "buy"
  ELSE IF wsc.wait_second_message /\ d.kind = "list" THEN "second"
  ELSE IF wsc.history_data_ready THEN "history"
  ELSE IF wsc.successCloseOrder THEN "closeOrder"
  ELSE IF wsc.updateStream /\ d.kind = "list" THEN "stream"
  ELSE IF wsc.updateHistoryNew THEN "historyNew"
  ELSE "none"

\* which elif of the JSON stage handles the frame; the whole chain stands
\* under `if isinstance(data, dict)` (client.py 236), its two list tests
\* (client.py 249, 264) included
DataBranch(m) ==
  LET d == JsonData(m) IN
  IF d.kind # "dict" THEN "none"
  ELSE IF "balance" \in DOMAIN d.v THEN "balance"
  ELSE IF "requestId" \in DOMAIN d.v /\ d.v.requestId = "buy" THEN "buy"
  ELSE IF wsc.wait_second_message /\ d.kind = "list" THEN "second"
  ELSE IF wsc.successCloseOrder THEN "closeOrder"
  ELSE IF wsc.history_data_ready THEN "history"
  ELSE IF wsc.updateStream /\ d.kind = "list" THEN "stream"
  ELSE IF wsc.updateHistoryNew THEN "historyNew"
  ELSE "none"

\* SentBy with the replies to the open frame and to the ping swapped
SentBy_Swapped(m) ==
  LET b == Branch(m) IN
  IF b = "open" THEN <<"3">>
  ELSE IF b = "ping" THEN <<"40">>
  ELSE IF b = "ack" THEN <<"ssid">>
  ELSE IF EventType(m) = "updateClosedDeals" THEN <<"changeSymbol">>
  ELSE <<>>

\* frames on_message sends on the socket
SentBy(m) ==
  LET b == Branch(m) IN
  IF b = "open" THEN <<"40">>
  ELSE IF b = "ping" THEN <<"3">>
  ELSE IF b = "ack" THEN <<"ssid">>
  ELSE IF EventType(m) = "updateClosedDeals" THEN <<"changeSymbol">>
  ELSE <<>>

\* on_open (client.py 20-23) on a successauth event
ConnectedAfter(m) ==
  IF EventType(m) = "successauth" THEN TRUE ELSE websocket_is_connected

GvAfter(m) ==
  LET ev == EventType(m)
      db == DataBranch(m)
      d == JsonData(m)
      g1 == IF ev = "successupdateBalance"
              THEN [gv EXCEPT !.balance_updated = TRUE]
            ELSE IF ev = "successopenOrder"
              THEN [gv EXCEPT !.result = PyBool(TRUE)]
            ELSE gv
      g2 == IF db = "balance" /\ "uid" \in DOMAIN d.v
              THEN [g1 EXCEPT !.balance_id = PyNum(d.v.uid)] ELSE g1
      g3 == IF db = "balance"
              THEN [g2 EXCEPT !.balance = PyNum(d.v.balance)] ELSE g2
      \* data["isDemo"] raises KeyError when the key is missing
      g4 == IF db = "balance" /\ "isDemo" \in DOMAIN d.v
              THEN [g3 EXCEPT !.balance_type = PyNum(d.v.isDemo),
                              !.balance_updated = TRUE]
            ELSE g3
  IN IF db = "buy" THEN [g4 EXCEPT !.order_data = d] ELSE g4

WscAfter(m) ==
  LET ev == EventType(m)
      db == DataBranch(m)
      w1 == IF ev = "updateClosedDeals"
              THEN [wsc EXCEPT !.updateClosedDeals = TRUE,
                               !.wait_second_message = TRUE]
            ELSE IF ev = "successcloseOrder"
              THEN [wsc EXCEPT !.successCloseOrder = TRUE,
                               !.wait_second_message = TRUE]
            ELSE IF ev = "loadHistoryPeriod"
              THEN [wsc EXCEPT !.history_data_ready = TRUE]
            ELSE IF ev = "updateStream"
              THEN [wsc EXCEPT !.updateStream = TRUE]
            ELSE IF ev = "updateHistoryNew"
              THEN [wsc EXCEPT !.updateHistoryNew = TRUE]
            ELSE wsc
  IN IF db = "second" THEN [w1 EXCEPT !.wait_second_message = FALSE,
                                      !.updateClosedDeals = FALSE]
     ELSE IF db = "closeOrder" THEN [w1 EXCEPT !.successCloseOrder = FALSE]
     ELSE IF db = "history" THEN [w1 EXCEPT !.history_data_ready = FALSE]
     ELSE IF db = "stream" THEN [w1 EXCEPT !.updateStream = FALSE]
     ELSE IF db = "historyNew" THEN [w1 EXCEPT !.updateHistoryNew = FALSE]
     ELSE w1

ApiAfter(m) ==
  LET db == DataBranch(m)
      d == JsonData(m)
  IN IF db = "closeOrder" THEN [apiv EXCEPT !.order_async = d]
     \* data["data"] raises KeyError when the key is missing
     ELSE IF db = "history" /\ "data" \in DOMAIN d.v
       THEN [apiv EXCEPT !.history_data = PyList(d.v.data)]
     \* time_sync.server_timestamp = data[0][1]
     ELSE IF db = "stream"
       THEN [apiv EXCEPT !.server_timestamp = PyNum(d.v[1][2])]
     ELSE IF db = "historyNew" THEN [apiv EXCEPT !.historyNew = d]
     ELSE apiv

ScenAfter(s, n) ==
  IF s = "start" /\ n = "open" THEN "open"
  ELSE IF s = "open" /\ n = "ack" THEN "ack"
  ELSE IF s = "ack" /\ n = "successauth" THEN "auth"
  ELSE "off"

\* WebsocketClient.on_message for frame n arriving on the socket of thread t
OnMessage(t, n) ==
  LET m == Frame(n) IN
  /\ lastSent' = SentBy(m)
  /\ websocket_is_connected' = ConnectedAfter(m)
  /\ gv' = GvAfter(m)
  /\ wsc' = WscAfter(m)
  /\ apiv' = ApiAfter(m)
  /\ ssl_Mutual_exclusion' =
       IF Branch(m) = "notauth" THEN FALSE ELSE ssl_Mutual_exclusion
  /\ sock' = IF Branch(m) = "notauth" THEN [sock EXCEPT ![t] = "closed"]
             ELSE sock
  /\ authed' = [authed EXCEPT ![t] = @ \/ EventType(m) = "successauth"]
  /\ scen' = [scen EXCEPT ![t] = ScenAfter(@, n)]
  /\ nauth' = (nauth \/ Branch(m) = "notauth")
  /\ credAfterNauth' = (credAfterNauth \/ (nauth /\ SentBy(m) = <<"ssid">>))

\* websocket_listener: the server sends a frame on the open socket of thread t
Receive(t, n) ==
  /\ tpc[t] = "serve"
  /\ sock[t] = "open"
  /\ framesLeft > 0
  /\ framesLeft' = framesLeft - 1
  /\ OnMessage(t, n)
  /\ UNCHANGED <<check_websocket_if_error, tpc, attempt, url, ret, tasks,
                 tried, pinged, everOpened, callVars, faultsLeft, teardown,
                 buyVars, opVars>>


\* ------------------------------------------------ WebsocketClient.connect
\* await self.api.close() inside try/except (client.py 87-90): it closes the
\* session's open sockets, or raises and the exception is swallowed
ApiClose(t) ==
  /\ tpc[t] = "close"
  /\ \E closes \in BOOLEAN :
       sock' = [u \in Threads |->
                  IF closes /\ sock[u] = "open" THEN "closed" ELSE sock[u]]
  /\ tpc' = [tpc EXCEPT ![t] = "while"]
  /\ UNCHANGED <<websocket_is_connected, check_websocket_if_error, attempt,
                 url, ret, tasks, tried, routerVars, histVars, callVars,
                 framesLeft, faultsLeft, teardown, buyVars, opVars>>

\* while not websocket_is_connected and attempt < max_attempts (client.py 94)
WhileTest(t) ==
  /\ tpc[t] = "while"
  /\ IF ~websocket_is_connected /\ attempt[t] < max_attempts
       THEN /\ attempt' = [attempt EXCEPT ![t] = @ + 1]
            /\ url' = [url EXCEPT ![t] = 1]
            /\ tpc' = [tpc EXCEPT ![t] = "open"]
       ELSE /\ tpc' = [tpc EXCEPT ![t] = "ret"]
            /\ UNCHANGED <<attempt, url>>
  /\ UNCHANGED <<websocket_is_connected, check_websocket_if_error, ret, sock,
                 tasks, tried, routerVars, histVars, callVars, framesLeft, faultsLeft,
                 teardown, buyVars, opVars>>

\* the server's budget after a refusal or a close
FaultsAfter == IF faultsLeft > 0 THEN faultsLeft - 1 ELSE faultsLeft

\* async with websockets.connect(url) (client.py 99-122): the socket opens
\* and the three tasks are created, or the attempt raises
OpenSocket(t, outcome) ==
  /\ tpc[t] = "open"
  /\ outcome # "ok" => faultsLeft # 0
  /\ faultsLeft' = IF outcome # "ok" THEN FaultsAfter ELSE faultsLeft
  /\ tried' = [tried EXCEPT ![t] = Append(@, url[t])]
  /\ IF outcome = "ok"
       THEN /\ sock' = [sock EXCEPT ![t] = "open"]
            /\ websocket_is_connected' = TRUE
            /\ tasks' = [tasks EXCEPT ![t] = "waiting"]
            /\ tpc' = [tpc EXCEPT ![t] = "serve"]
            /\ authed' = [authed EXCEPT ![t] = FALSE]
            /\ scen' = [scen EXCEPT ![t] = "start"]
            /\ pinged' = [pinged EXCEPT ![t] = FALSE]
            /\ everOpened' = TRUE
            /\ UNCHANGED check_websocket_if_error
       ELSE /\ websocket_is_connected' = FALSE
            /\ check_websocket_if_error' =
                 IF outcome = "Exception" THEN TRUE
                 ELSE check_websocket_if_error
            /\ tpc' = [tpc EXCEPT ![t] = "sleep2"]
            /\ UNCHANGED <<sock, tasks, authed, scen, pinged, everOpened>>
  /\ UNCHANGED <<attempt, url, ret, routerVars, lastSent, nauth,
                 credAfterNauth, callVars, framesLeft, teardown, buyVars, opVars>>

\* send_message and send_ping leave their `while websocket_is_connected is
\* False` loops (client.py 26-27, 136-137); self.message is None, so the
\* sender task sends nothing and ends
TasksStart(t) ==
  /\ tpc[t] = "serve"
  /\ tasks[t] = "waiting"
  /\ websocket_is_connected
  /\ tasks' = [tasks EXCEPT ![t] = "running"]
  /\ UNCHANGED <<websocket_is_connected, check_websocket_if_error, tpc,
                 attempt, url, ret, sock, tried, routerVars, histVars,
                 callVars, framesLeft, faultsLeft, teardown, buyVars, opVars>>

\* send_ping, one turn of its loop (client.py 28-35): the ping is sent, or
\* the send raises on a closed socket and the task ends
SendPing(t) ==
  /\ tpc[t] = "serve"
  /\ tasks[t] = "running"
  /\ IF sock[t] = "open"
       THEN /\ pinged' = [pinged EXCEPT ![t] = TRUE]
            /\ UNCHANGED tasks
       ELSE /\ tasks' = [tasks EXCEPT ![t] = "ended"]
            /\ UNCHANGED pinged
  /\ UNCHANGED <<websocket_is_connected, check_websocket_if_error, tpc,
                 attempt, url, ret, sock, tried, routerVars, authed, scen,
                 lastSent, nauth, credAfterNauth, everOpened, callVars,
                 framesLeft, faultsLeft, teardown, buyVars, opVars>>

\* the server closes the socket of thread t
ServerClose(t) ==
  /\ tpc[t] = "serve"
  /\ sock[t] = "open"
  /\ faultsLeft # 0
  /\ faultsLeft' = FaultsAfter
  /\ sock' = [sock EXCEPT ![t] = "closed"]
  /\ UNCHANGED <<websocket_is_connected, check_websocket_if_error, tpc,
                 attempt, url, ret, tasks, tried, routerVars, histVars,
                 callVars, framesLeft, teardown, buyVars, opVars>>

\* asyncio.gather returns (client.py 112): the listener ended with the
\* socket, the sender and the ping task ended; no exception reaches connect,
\* so neither except clause runs and the flag is left as it is
GatherDone(t) ==
  /\ tpc[t] = "serve"
  /\ sock[t] = "closed"
  /\ tasks[t] = "ended"
  /\ sock' = [sock EXCEPT ![t] = "none"]
  /\ tasks' = [tasks EXCEPT ![t] = "none"]
  /\ tpc' = [tpc EXCEPT ![t] = "sleep2"]
  /\ UNCHANGED <<websocket_is_connected, check_websocket_if_error, attempt,
                 url, ret, tried, routerVars, histVars, callVars, framesLeft, faultsLeft,
                 teardown, buyVars, opVars>>

\* after asyncio.sleep(2) (client.py 124): next url of the for loop, or the
\* end of the pass (client.py 126)
NextRegion(t) ==
  /\ tpc[t] = "sleep2"
  /\ IF url[t] < NumRegions
       THEN /\ url' = [url EXCEPT ![t] = @ + 1]
            /\ tpc' = [tpc EXCEPT ![t] = "open"]
       ELSE /\ tpc' = [tpc EXCEPT ![t] =
                         IF ~websocket_is_connected THEN "sleep5"
                         ELSE "while"]
            /\ UNCHANGED url
  /\ UNCHANGED <<websocket_is_connected, check_websocket_if_error, attempt,
                 ret, sock, tasks, tried, routerVars, histVars, callVars,
                 framesLeft, faultsLeft, teardown, buyVars, opVars>>

\* after asyncio.sleep(5) (client.py 128)
NextPass(t) ==
  /\ tpc[t] = "sleep5"
  /\ tpc' = [tpc EXCEPT ![t] = "while"]
  /\ UNCHANGED <<websocket_is_connected, check_websocket_if_error, attempt,
                 url, ret, sock, tasks, tried, routerVars, histVars,
                 callVars, framesLeft, faultsLeft, teardown, buyVars, opVars>>

\* ConnectResult without the final test of the flag
ConnectResult_NoTest(connected) == TRUE

\* the value connect returns (client.py 130-133)
ConnectResult(connected) == IF ~connected THEN FALSE ELSE TRUE

ConnectReturn(t) ==
  /\ tpc[t] = "ret"
  /\ ret' = [ret EXCEPT ![t] = PyBool(ConnectResult(websocket_is_connected))]
  /\ tpc' = [tpc EXCEPT ![t] = "done"]
  /\ UNCHANGED <<websocket_is_connected, check_websocket_if_error, attempt,
                 url, sock, tasks, tried, routerVars, histVars, callVars,
                 framesLeft, faultsLeft, teardown, buyVars, opVars>>

\* ------------------------------------------------- PocketOption.connect
\* the thread target self.api.connect runs the transport's connect
ApiConnect(t) ==
  /\ tpc[t] = "started"
  /\ tpc' = [tpc EXCEPT ![t] = "close"]
  /\ UNCHANGED <<websocket_is_connected, check_websocket_if_error, attempt,
                 url, ret, sock, tasks, tried, routerVars, histVars, callVars,
                 framesLeft, faultsLeft, teardown, buyVars, opVars>>

\* a new daemon thread is started on self.api.connect (stable_api.py 98-99)
StartConnect ==
  /\ callPc = "idle"
  /\ callsLeft > 0
  /\ started < MaxCalls
  /\ started' = started + 1
  /\ callsLeft' = callsLeft - 1
  /\ tpc' = [tpc EXCEPT ![started + 1] = "started"]
  /\ callPc' = "sleep"
  /\ UNCHANGED <<websocket_is_connected, check_websocket_if_error, attempt,
                 url, ret, sock, tasks, tried, routerVars, histVars, callRet,
                 framesLeft, faultsLeft, teardown, buyVars, opVars>>

\* after time.sleep(1) the flag decides the result (stable_api.py 100-105)
EndConnect ==
  /\ callPc = "sleep"
  /\ callRet' = PyBool(websocket_is_connected)
  /\ callPc' = "idle"
  /\ UNCHANGED <<connVars, routerVars, histVars, started, callsLeft,
                 framesLeft, faultsLeft, teardown, buyVars, opVars>>


\* ------------------------------------------------ PocketOption.disconnect
\* the steps of disconnect up to the one that raises (stable_api.py 77-94);
\* the single try block sends any exception to the final except clause.
\* The caller makes no further call after disconnect().
StepsDone(failAt) ==
  LET connected == websocket_is_connected
      alive == \E t \in Threads : tpc[t] \notin {"idle", "done"}
      closeOk == failAt # "close"
      cancelOk == closeOk /\ failAt # "cancel"
      loopOk == cancelOk /\ failAt # "loop"
  IN [done |-> TRUE,
      was_connected |-> connected,
      was_alive |-> alive,
      socket_closed |-> connected /\ closeOk,
      tasks_cancelled |-> cancelOk,
      loop_closed |-> loopOk,
      thread_joined |-> loopOk /\ alive]

Disconnect(failAt) ==
  /\ callPc = "idle"
  /\ started > 0
  /\ failAt = "close" => websocket_is_connected
  /\ teardown' = StepsDone(failAt)
  /\ sock' = [u \in Threads |->
                IF teardown'.socket_closed /\ sock[u] = "open" THEN "closed"
                ELSE sock[u]]
  /\ callPc' = "stopped"
  /\ UNCHANGED <<websocket_is_connected, check_websocket_if_error, tpc,
                 attempt, url, ret, tasks, tried, routerVars, histVars,
                 callRet, started, callsLeft, framesLeft, faultsLeft, buyVars, opVars>>

\* ------------------------------------------------------- PocketOption.buy
\* the slots are reset, the command is sent, the clock is read
\* (stable_api.py 147-161)
BuyStart ==
  /\ bpc \in {"idle", "returned"}
  /\ buysLeft > 0
  /\ buysLeft' = buysLeft - 1
  /\ gv' = [gv EXCEPT !.order_data = PyNone, !.result = PyNone]
  /\ start_t' = now
  /\ arrived' = -1
  /\ bpc' = "poll"
  /\ UNCHANGED <<connVars, ssl_Mutual_exclusion, wsc, apiv, histVars,
                 callVars, framesLeft, faultsLeft, teardown, now, bret, opVars>>

\* both completion parts are present (stable_api.py 163)
BuyComplete(g) == g.result # PyNone /\ g.order_data # PyNone

\* BuyTimedOut with > for >=
BuyTimedOut_Late(t, start) == t - start > BuyDeadline * PollsPerSecond

\* the deadline test (stable_api.py 165), time counted in polls
BuyTimedOut(t, start) == t - start >= BuyDeadline * PollsPerSecond

\* the value buy returns on completion (stable_api.py 172)
BuyResult(g) == [accepted |-> g.result, id |-> DictGet(g.order_data, "id")]

\* the value buy returns at the deadline (stable_api.py 170)
BuyTimeoutResult == [accepted |-> PyBool(FALSE), id |-> PyNone]

\* one turn of the polling loop (stable_api.py 162-172)
BuyPoll ==
  /\ bpc = "poll"
  /\ IF BuyComplete(gv)
       THEN /\ bret' = BuyResult(gv)
            /\ bpc' = "returned"
            /\ UNCHANGED now
     ELSE IF BuyTimedOut(now, start_t)
       THEN /\ bret' = BuyTimeoutResult
            /\ bpc' = "returned"
            /\ UNCHANGED now
     ELSE /\ now' = now + 1
          /\ UNCHANGED <<bret, bpc>>
  /\ UNCHANGED <<connVars, routerVars, histVars, callVars, framesLeft, faultsLeft,
                 teardown, start_t, arrived, buysLeft, opVars>>

\* the server sends an order frame while the session is connected
ReceiveOrderFrame(t, n) ==
  /\ tpc[t] = "serve"
  /\ sock[t] = "open"
  /\ framesLeft > 0
  /\ framesLeft' = framesLeft - 1
  /\ OnMessage(t, n)
  /\ arrived' = IF bpc = "poll" /\ arrived = -1 /\ BuyComplete(gv')
                  THEN now ELSE arrived
  /\ UNCHANGED <<check_websocket_if_error, tpc, attempt, url, ret, tasks,
                 tried, pinged, everOpened, callVars, faultsLeft, teardown,
                 bpc, start_t, now, bret, buysLeft, opVars>>

\* ------------------------------------------------- PocketOption.check_win
\* the ids check_win is called with: one the frames report, one they never
\* report, and None (buy returned no id)
WinIds == {PyStr("o1"), PyStr("o3"), PyNone}

\* get_async_order (stable_api.py 64-68): order_async["deals"][0] when its id
\* equals buy_order_id, else None; a subscript that fails raises
GetAsyncOrder(oa, buy_order_id) ==
  IF oa.kind # "dict" THEN [kind |-> "raise"]
  ELSE IF "deals" \notin DOMAIN oa.v THEN [kind |-> "raise"]
  ELSE IF Len(oa.v.deals) = 0 THEN [kind |-> "raise"]
  ELSE IF "id" \notin DOMAIN oa.v.deals[1] THEN [kind |-> "raise"]
  ELSE IF oa.v.deals[1].id = buy_order_id THEN PyDict(oa.v.deals[1])
  ELSE PyNone

\* the test that leaves the polling loop (stable_api.py 180); a raise of
\* get_async_order is swallowed by the bare except
WinFound(order_info) ==
  /\ order_info.kind = "dict"
  /\ "id" \in DOMAIN order_info.v
  /\ order_info.v.id # PyNone

\* WinTimedOut with the deadline of buy
WinTimedOut_Short(t, start) == t - start >= BuyDeadline * PollsPerSecond

\* the deadline test (stable_api.py 184), time counted in polls
WinTimedOut(t, start) == t - start >= WinDeadline * PollsPerSecond

\* the value returned after the loop (stable_api.py 188-193)
WinResult(order_info) ==
  IF "profit" \in DOMAIN order_info.v
    THEN [profit |-> order_info.v.profit,
          status |-> IF order_info.v.profit.v > 0 THEN "win" ELSE "lose"]
  ELSE [profit |-> PyNone, status |-> "unknown"]

\* the value returned at the deadline (stable_api.py 186)
WinTimeoutResult == [profit |-> PyNone, status |-> "unknown"]

\* the tracked close-order record names id as its first deal
Reports(oa, id) == WinFound(GetAsyncOrder(oa, id))

\* check_win(id_number) is called: the clock is read (stable_api.py 175-176)
WinStart ==
  /\ cw.pc = "idle"
  /\ opsLeft > 0
  /\ opsLeft' = opsLeft - 1
  /\ \E id \in WinIds :
       cw' = [pc |-> "poll", id_number |-> id, start_t |-> now,
              ret |-> [profit |-> PyNone, status |-> "-"],
              reported |-> Reports(apiv.order_async, id)]
  /\ UNCHANGED <<connVars, routerVars, histVars, callVars, framesLeft,
                 faultsLeft, teardown, buyVars, notWin>>

\* one turn of the polling loop (stable_api.py 177-193)
WinPoll ==
  /\ cw.pc = "poll"
  /\ LET order_info == GetAsyncOrder(apiv.order_async, cw.id_number) IN
     IF WinFound(order_info)
       THEN /\ cw' = [cw EXCEPT !.pc = "returned",
                                !.ret = WinResult(order_info)]
            /\ UNCHANGED now
     ELSE IF WinTimedOut(now, cw.start_t)
       THEN /\ cw' = [cw EXCEPT !.pc = "returned", !.ret = WinTimeoutResult]
            /\ UNCHANGED now
     ELSE /\ now' = now + 1
          /\ UNCHANGED cw
  /\ UNCHANGED <<connVars, routerVars, histVars, callVars, framesLeft,
                 faultsLeft, teardown, bpc, start_t, bret, arrived, buysLeft,
                 opsLeft, notWin>>

\* the server sends a close-order frame while the session is connected
ReceiveCloseFrame(t, n) ==
  /\ tpc[t] = "serve"
  /\ sock[t] = "open"
  /\ framesLeft > 0
  /\ framesLeft' = framesLeft - 1
  /\ OnMessage(t, n)
  /\ cw' = IF cw.pc = "poll"
             THEN [cw EXCEPT !.reported =
                               @ \/ Reports(apiv'.order_async, cw.id_number)]
           ELSE cw
  /\ UNCHANGED <<check_websocket_if_error, tpc, attempt, url, ret, tasks,
                 tried, pinged, everOpened, callVars, faultsLeft, teardown,
                 buyVars, opsLeft, notWin>>

\* ----------------------------------------------- PocketOption.get_balance
\* GetBalance that answers 0 while the balance is not marked updated
GetBalance_Zero(g) ==
  IF g.balance_updated THEN g.balance ELSE PyNum(0)

\* get_balance (stable_api.py 126-131)
GetBalance(g) ==
  IF g.balance_updated THEN g.balance ELSE PyNone

\* the caller calls get_balance()
BalanceCall ==
  /\ opsLeft > 0
  /\ opsLeft' = opsLeft - 1
  /\ bal' = [called |-> TRUE, ret |-> GetBalance(gv)]
  /\ UNCHANGED <<connVars, routerVars, histVars, callVars, framesLeft,
                 faultsLeft, teardown, buyVars, supplied, notBal>>

\* the server sends a balance frame while the session is connected
ReceiveBalanceFrame(t, n) ==
  /\ tpc[t] = "serve"
  /\ sock[t] = "open"
  /\ framesLeft > 0
  /\ framesLeft' = framesLeft - 1
  /\ OnMessage(t, n)
  /\ supplied' = IF DataBranch(Frame(n)) = "balance"
                   THEN supplied \cup {PyNum(JsonData(Frame(n)).v.balance)}
                 ELSE supplied
  /\ UNCHANGED <<check_websocket_if_error, tpc, attempt, url, ret, tasks,
                 tried, pinged, everOpened, callVars, faultsLeft, teardown,
                 buyVars, opsLeft, bal, notBal>>

\* ------------------------------------------- indicators: candle lookups
\* the cache keys f"{asset}_{timeframe}_{history_size}" of two assets at the
\* configured timeframe
CacheKeys == {"A_60_9000", "B_60_9000"}

\* the instants at which the timer is read: the start, one second later, and
\* one second before, at, and one second after the TTL
ClockPoints == {0, 1, CandleTTL - 1, CandleTTL, CandleTTL + 1}

\* what PocketOption.get_candles returns: the resampled DataFrame
\* (stable_api.py 234) or None (stable_api.py 237); it is a plain function,
\* so the value is there when the call expression has been evaluated
GetCandlesReturns == {"DataFrame", "None"}

\* Await that gives the result of any object
Await_Any(v) == "ok"

\* `await v`: the result of an awaitable, TypeError for any other object
Await(v) ==
  IF v \in {"coroutine", "future", "task"} THEN "ok" ELSE "TypeError"

\* RetryIf that retries after every exception
RetryIf_Any(exc) == TRUE

\* retry_if_exception_type (indicators.py 28)
RetryIf(exc) ==
  exc \in {"TimeoutError", "ConnectionError", "CancelledError"}

\* wait_exponential(multiplier=1, min=2, max=15) after attempt n
\* (indicators.py 27): 2^(n-1) clamped to [min, max]
Backoff(n) ==
  LET e == 2 ^ (n - 1)
      capped == IF e < BackoffMax THEN e ELSE BackoffMax
  IN IF capped > BackoffMin THEN capped ELSE BackoffMin

\* TTLCache.__contains__: the entry is there and has not expired
CacheHas(c, k, t) == c[k].present /\ t < c[k].expires

\* TTLCache.__setitem__: the entry expires ttl after the insertion
CachePut(c, k, v, t) ==
  [c EXCEPT ![k] = [present |-> TRUE, value |-> v, expires |-> t + CandleTTL]]

\* the timer advances
Tick ==
  /\ \E t \in ClockPoints :
       /\ t > mono
       /\ mono' = t
  /\ UNCHANGED <<connVars, routerVars, histVars, callVars, framesLeft,
                 faultsLeft, teardown, buyVars, opsLeft, candle_cache, ci,
                 fetched, notCache>>

\* calculate_indicators looks the key up (indicators.py 64-69): a cached
\* entry is used, otherwise get_candles_with_retry is called
CandleLookup(k) ==
  /\ ci.pc = "idle"
  /\ opsLeft > 0
  /\ opsLeft' = opsLeft - 1
  /\ ci' = [pc |-> IF CacheHas(candle_cache, k, mono) THEN "idle"
                   ELSE "call",
            done |-> CacheHas(candle_cache, k, mono),
            key |-> k,
            hit |-> CacheHas(candle_cache, k, mono),
            fresh |-> fetched[k] # -1 /\ mono - fetched[k] < CandleTTL,
            attempt_number |-> 1,
            requests |-> 0,
            excs |-> <<>>,
            failed |-> FALSE,
            got |-> ci.got]
  /\ UNCHANGED <<connVars, routerVars, histVars, callVars, framesLeft,
                 faultsLeft, teardown, buyVars, candle_cache, mono, fetched,
                 notCache>>

\* one attempt of get_candles_with_retry (indicators.py 25-35): the call
\* client.get_candles(...) sends the upstream request and returns r, the
\* await of r gives the result or raises; tenacity retries after an exception
\* of the listed types until the 5th attempt and lets any other exception
\* through; calculate_indicators stores a result in the cache and skips the
\* asset on an exception (indicators.py 70-75)
FetchAttempt(r) ==
  /\ ci.pc = "call"
  /\ LET k == ci.key
         out == Await(r)
         c1 == [ci EXCEPT !.requests = @ + 1,
                          !.excs = IF out = "ok" THEN @ ELSE Append(@, out),
                          !.got[k] = r]
     IN /\ fetched' = IF r = "DataFrame" THEN [fetched EXCEPT ![k] = mono]
                      ELSE fetched
        /\ IF out = "ok"
             THEN /\ candle_cache' = CachePut(candle_cache, k, r, mono)
                  /\ ci' = [c1 EXCEPT !.pc = "idle", !.done = TRUE]
                  /\ UNCHANGED mono
           ELSE IF RetryIf(out) /\ ci.attempt_number < RetryAttempts
             THEN /\ ci' = [c1 EXCEPT !.attempt_number = @ + 1]
                  /\ mono' = mono + Backoff(ci.attempt_number)
                  /\ UNCHANGED candle_cache
           ELSE /\ ci' = [c1 EXCEPT !.pc = "idle", !.done = TRUE,
                                    !.failed = TRUE]
                /\ UNCHANGED <<candle_cache, mono>>
  /\ UNCHANGED <<connVars, routerVars, histVars, callVars, framesLeft,
                 faultsLeft, teardown, buyVars, opsLeft, notCache>>

\* --------------------------------------------------- calculate_indicators
\* the indicator cache keys f"{timeframe}_{','.join(sorted(assets))}" of the
\* calls made, each for one asset
IndKeys == {"60_A", "60_B"}

\* the candle cache key of the asset of an indicator key
CandleKeyOf(k) == IF k = "60_A" THEN "A_60_9000" ELSE "B_60_9000"

\* get_indicator_cache (indicators.py 19-21): a new, empty TTLCache with
\* ttl = timeframe * 5, whatever an earlier call stored in its own
GetIndicatorCache(timeframe) ==
  [k \in IndKeys |-> [present |-> FALSE, expires |-> 0]]

\* calculate_indicators(client, [asset], timeframe) is called (indicators.py
\* 37-46): the cache is obtained and the key looked up; a cached bundle is
\* returned at once, otherwise the loop over the assets begins
IndStart(k) ==
  /\ ind.pc = "idle"
  /\ ci.pc = "idle"
  /\ opsLeft > 0
  /\ LET indicator_cache == GetIndicatorCache(TIMEFRAME)
         hit == /\ indicator_cache[k].present
                /\ mono < indicator_cache[k].expires
     IN /\ ind' = [ind EXCEPT
                     !.pc = IF hit THEN "idle" ELSE "loop",
                     !.key = k,
                     !.cache = indicator_cache,
                     !.calls = @ + 1,
                     !.hit = hit,
                     !.fresh = /\ ind.last[k] # -1
                               /\ mono - ind.last[k] < IndTTL]
        /\ ci' = [ci EXCEPT !.done = FALSE]
  /\ UNCHANGED <<connVars, routerVars, histVars, callVars, framesLeft,
                 faultsLeft, teardown, buyVars, opsLeft, candle_cache, mono,
                 fetched, notInd>>

\* the loop body for the asset (indicators.py 50-75): the candle lookup
IndLookup ==
  /\ ind.pc = "loop"
  /\ ~ci.done
  /\ CandleLookup(CandleKeyOf(ind.key))

\* after the loop the bundle is stored in the cache of this call and
\* returned (indicators.py 181-185)
IndEnd ==
  /\ ind.pc = "loop"
  /\ ci.pc = "idle"
  /\ ci.done
  /\ ind' = [ind EXCEPT
               !.pc = "idle",
               !.cache[ind.key] = [present |-> TRUE,
                                   expires |-> mono + IndTTL],
               !.computed = @ + 1,
               !.last[ind.key] = mono]
  /\ UNCHANGED <<connVars, routerVars, histVars, callVars, framesLeft,
                 faultsLeft, teardown, buyVars, opsLeft, cacheVars, notInd>>

\* ------------------------------------- concurrent candle lookups
\* the callers, named by the order in which gather created their tasks
Callers == 1..MaxCallers

\* asyncio.gather starts one calculate_indicators task per caller, each for
\* one asset
CcSpawn ==
  /\ cc.pc = "idle"
  /\ opsLeft > 0
  /\ opsLeft' = opsLeft - 1
  /\ \E keys \in [Callers -> CacheKeys] :
       cc' = [cc EXCEPT !.pc = "running",
                        !.task = [c \in Callers |-> "ready"],
                        !.key = keys]
  /\ UNCHANGED <<connVars, routerVars, histVars, callVars, framesLeft,
                 faultsLeft, teardown, buyVars, cacheVars, fetchVars, notCc>>

\* the task of caller c gets its turn on the event loop (indicators.py
\* 64-70): a cached series ends the lookup; otherwise get_candles_with_retry
\* calls client.get_candles, a plain call that keeps the event loop until it
\* returns, so no other task runs meanwhile
CcRun(c) ==
  /\ cc.pc = "running"
  /\ cc.task[c] = "ready"
  /\ \A b \in Callers : b < c => cc.task[b] = "done"
  /\ IF CacheHas(candle_cache, cc.key[c], mono)
       THEN /\ cc' = [cc EXCEPT !.task[c] = "done"]
            /\ UNCHANGED <<apiv, gc>>
       ELSE /\ cc' = [cc EXCEPT !.task[c] = "fetching",
                                !.upstream[cc.key[c]] = @ + 1]
            /\ apiv' = [apiv EXCEPT !.history_data = PyNone]
            /\ gc' = [pc |-> "send", period |-> TIMEFRAME, i |-> 1,
                      all_candles |-> <<>>, sent |-> FALSE, resent |-> FALSE,
                      ret |-> PyNone]
  /\ UNCHANGED <<connVars, ssl_Mutual_exclusion, gv, wsc, histVars, callVars,
                 framesLeft, faultsLeft, teardown, buyVars, opsLeft,
                 cacheVars, notCc>>

\* get_candles has returned (indicators.py 32-35, 70-75): its value is
\* awaited; a result is stored in the candle cache, an exception that
\* tenacity lets through makes the caller skip the asset
CcEnd(c) ==
  /\ cc.pc = "running"
  /\ cc.task[c] = "fetching"
  /\ gc.pc = "returned"
  /\ LET r == IF gc.ret = PyNone THEN "None" ELSE "DataFrame" IN
     candle_cache' = IF Await(r) = "ok"
                       THEN CachePut(candle_cache, cc.key[c], r, mono)
                     ELSE candle_cache
  /\ cc' = [cc EXCEPT !.task[c] = "done"]
  /\ UNCHANGED <<connVars, routerVars, histVars, callVars, framesLeft,
                 faultsLeft, teardown, buyVars, opsLeft, mono, ci, fetched,
                 fetchVars, notCc>>

\* gather returns when every task has ended
CcReturn ==
  /\ cc.pc = "running"
  /\ \A c \in Callers : cc.task[c] = "done"
  /\ cc' = [cc EXCEPT !.pc = "returned"]
  /\ UNCHANGED <<connVars, routerVars, histVars, callVars, framesLeft,
                 faultsLeft, teardown, buyVars, opsLeft, cacheVars, fetchVars,
                 notCc>>

\* ------------------------------------------- overlapping buy() calls
\* the threads that call buy() on the one session
Buyers == 1..MaxBuyers

\* caller b enters buy (stable_api.py 147-161): the two module-level slots
\* are reset whatever they hold, the command goes out under the request id
\* "buy", the clock is read
ObStart(b) ==
  /\ ob.pc[b] = "idle"
  /\ gv' = [gv EXCEPT !.order_data = PyNone, !.result = PyNone]
  /\ ob' = [ob EXCEPT !.pc[b] = "poll", !.start_t[b] = now, !.held = 0]
  /\ UNCHANGED <<connVars, ssl_Mutual_exclusion, wsc, apiv, histVars,
                 callVars, framesLeft, faultsLeft, teardown, buyVars,
                 opsLeft, orders, closed, notOb>>

\* one turn of caller b's polling loop (stable_api.py 162-172); from records
\* which response frame the returned value was read from
ObPoll(b) ==
  /\ ob.pc[b] = "poll"
  /\ IF BuyComplete(gv)
       THEN /\ ob' = [ob EXCEPT !.pc[b] = "returned",
                                !.ret[b] = BuyResult(gv),
                                !.from[b] = ob.held]
            /\ UNCHANGED now
     ELSE IF BuyTimedOut(now, ob.start_t[b])
       THEN /\ ob' = [ob EXCEPT !.pc[b] = "returned",
                                !.ret[b] = BuyTimeoutResult]
            /\ UNCHANGED now
     ELSE /\ now' = now + 1
          /\ UNCHANGED ob
  /\ UNCHANGED <<connVars, routerVars, histVars, callVars, framesLeft,
                 faultsLeft, teardown, bpc, start_t, bret, arrived, buysLeft,
                 opsLeft, orders, closed, notOb>>

\* the server sends an order frame while calls are under way; a buy
\* response (client.py 245-247) gets the next serial number
ReceiveOverlapFrame(t, n) ==
  /\ tpc[t] = "serve"
  /\ sock[t] = "open"
  /\ framesLeft > 0
  /\ framesLeft' = framesLeft - 1
  /\ OnMessage(t, n)
  /\ ob' = IF n \in {"buy_ok", "buy_rejected"}
             THEN [ob EXCEPT !.serial = @ + 1, !.held = ob.serial + 1]
           ELSE ob
  /\ UNCHANGED <<check_websocket_if_error, tpc, attempt, url, ret, tasks,
                 tried, pinged, everOpened, callVars, faultsLeft, teardown,
                 buyVars, opsLeft, orders, closed, notOb>>

\* ------------------------------------- answers to successive buy() calls
\* the number of buy commands sent so far, when the caller began with
\* MaxBuys calls to make (stable_api.py 160)
CommandsSent == MaxBuys - buysLeft

\* the order the server opens for the k-th command, and the response frame
\* that names it (client.py 245-247 receives it)
OrderIdOf(k) == CASE k = 1 -> "o1" [] k = 2 -> "o2" [] OTHER -> "o3"
ResponseFrameOf(k) ==
  CASE k = 1 -> "buy_ok" [] k = 2 -> "buy_ok_o2" [] OTHER -> "buy_ok_o3"

\* the server sends one part of its answer to the k-th command, the
\* confirmation event (client.py 200-202) or the response (client.py
\* 245-247), at any time after the command was sent; neither frame names
\* the call it answers beyond the request id "buy"
ServerAnswer(t, k, part) ==
  /\ tpc[t] = "serve"
  /\ sock[t] = "open"
  /\ framesLeft > 0
  /\ k <= CommandsSent
  /\ part \notin orders[k]
  /\ framesLeft' = framesLeft - 1
  /\ orders' = [orders EXCEPT ![k] = @ \cup {part}]
  /\ OnMessage(t, IF part = "event" THEN "successopenOrder"
                  ELSE ResponseFrameOf(k))
  /\ UNCHANGED <<check_websocket_if_error, tpc, attempt, url, ret, tasks,
                 tried, pinged, everOpened, callVars, faultsLeft, teardown,
                 buyVars, opsLeft, ob, closed, notOb>>

\* ------------------------------------------ close-order results stored
\* the records of a close-order result that name an order and its profit,
\* at any position of the deals list
TerminalRecords(d) ==
  IF d.kind = "dict" /\ "deals" \in DOMAIN d.v
    THEN {d.v.deals[i] : i \in {j \in 1..Len(d.v.deals) :
                                  /\ "id" \in DOMAIN d.v.deals[j]
                                  /\ "profit" \in DOMAIN d.v.deals[j]}}
  ELSE {}

\* the server sends a close-order frame; a result that on_message stores in
\* api.order_async (client.py 254-257) adds its terminal records to closed
DeliverCloseFrame(t, n) ==
  /\ tpc[t] = "serve"
  /\ sock[t] = "open"
  /\ framesLeft > 0
  /\ framesLeft' = framesLeft - 1
  /\ OnMessage(t, n)
  /\ closed' = IF wsc.successCloseOrder /\ ~wsc'.successCloseOrder
                 THEN closed \cup TerminalRecords(Frame(n).json)
               ELSE closed
  /\ UNCHANGED <<check_websocket_if_error, tpc, attempt, url, ret, tasks,
                 tried, pinged, everOpened, callVars, faultsLeft, teardown,
                 buyVars, opsLeft, ob, orders, notOb>>

\* ------------------------------------------------ main.check_connection
\* check_connection (main.py 38-49): True when get_balance() gives a value;
\* the socket and the connected flag are not consulted
CheckConnectionResult(g) == GetBalance(g) # PyNone

\* the main cycle calls check_connection (main.py 138); open and flag record
\* the state of the connection at the call
CheckConnection ==
  /\ opsLeft > 0
  /\ opsLeft' = opsLeft - 1
  /\ chk' = [called |-> TRUE, ret |-> CheckConnectionResult(gv),
             open |-> \E t \in Threads : sock[t] = "open",
             flag |-> websocket_is_connected]
  /\ UNCHANGED <<connVars, routerVars, histVars, callVars, framesLeft,
                 faultsLeft, teardown, buyVars, trading_state, tr, ml,
                 notMain>>

\* ------------------------------------------------- candle aggregation
\* a point is [time, price]; times are whole seconds (index.floor('1s')
\* leaves them as they are) and prices are in tenths
Pt(t, p) == [time |-> t, price |-> p]

AggTimes == {100, 101, 105, 110, 125}
AggPrices == {9, 10, 12}
AggPeriods == {5, 10}
AggPoints == {Pt(t, p) : t \in AggTimes, p \in AggPrices}

\* the five points of the spec's scenario A
ScenarioA == <<Pt(100, 10), Pt(101, 10), Pt(105, 12), Pt(110, 9), Pt(100, 10)>>

\* the point lists the functions are applied to
AggInputs ==
  UNION {[1..n -> AggPoints] : n \in 0..MaxPoints} \cup {ScenarioA}

\* sorted(all_candles, key=time) and sort_values(by='time'): ascending and
\* stable, points of equal time keep their order
RECURSIVE InsertByTime(_, _)
InsertByTime(s, x) ==
  IF Len(s) = 0 THEN <<x>>
  ELSE IF s[Len(s)].time <= x.time THEN Append(s, x)
  ELSE Append(InsertByTime(SubSeq(s, 1, Len(s) - 1), x), s[Len(s)])

RECURSIVE SortByTime(_)
SortByTime(s) ==
  IF Len(s) = 0 THEN <<>>
  ELSE InsertByTime(SortByTime(SubSeq(s, 1, Len(s) - 1)), s[Len(s)])

RECURSIVE MaxPrice(_)
MaxPrice(s) ==
  IF Len(s) = 1 THEN s[1].price
  ELSE LET m == MaxPrice(Tail(s)) IN IF s[1].price > m THEN s[1].price ELSE m

RECURSIVE MinPrice(_)
MinPrice(s) ==
  IF Len(s) = 1 THEN s[1].price
  ELSE LET m == MinPrice(Tail(s)) IN IF s[1].price < m THEN s[1].price ELSE m

\* Ohlc with open and close exchanged
Ohlc_Swapped(b, ps) ==
  IF Len(ps) = 0
    THEN [time |-> b, nan |-> TRUE, open |-> 0, high |-> 0, low |-> 0,
          close |-> 0]
  ELSE [time |-> b, nan |-> FALSE, open |-> ps[Len(ps)].price,
        high |-> MaxPrice(ps), low |-> MinPrice(ps),
        close |-> ps[1].price]

\* the row of one bin: first, max, min, last of its points in row order; a
\* bin without points is a row of NaN
Ohlc(b, ps) ==
  IF Len(ps) = 0
    THEN [time |-> b, nan |-> TRUE, open |-> 0, high |-> 0, low |-> 0,
          close |-> 0]
  ELSE [time |-> b, nan |-> FALSE, open |-> ps[1].price,
        high |-> MaxPrice(ps), low |-> MinPrice(ps),
        close |-> ps[Len(ps)].price]

\* the left edge of the bin of t: resample anchors its bins at midnight of
\* the first point's day (origin='start_day')
BinOf(t, first, period) ==
  LET start_day == (first \div DaySeconds) * DaySeconds
  IN start_day + ((t - start_day) \div period) * period

\* df['price'].resample(f'{period}s').ohlc() on the sorted points
\* (stable_api.py 227-233): one row per bin from the first point's bin to
\* the last point's bin
Resample(points, period) ==
  LET sorted == SortByTime(points)
      first == sorted[1].time
      lo == BinOf(first, first, period)
      hi == BinOf(sorted[Len(sorted)].time, first, period)
      n == ((hi - lo) \div period) + 1
      InBin(b) == SelectSeq(sorted, LAMBDA x : BinOf(x.time, first, period) = b)
  IN [i \in 1..n |-> Ohlc(lo + (i - 1) * period,
                          InBin(lo + (i - 1) * period))]

\* the aggregation pass of get_candles (stable_api.py 224-237): without a
\* point the frame has no 'time' column, sort_values raises and the outer
\* except returns None
GetCandlesResample(points, period) ==
  IF Len(points) = 0 THEN PyNone ELSE PyList(Resample(points, period))

\* the distinct buckets floor(time / period) * period, ascending
RECURSIVE BucketsOf(_, _)
BucketsOf(sorted, period) ==
  IF Len(sorted) = 0 THEN <<>>
  ELSE LET rest == BucketsOf(SubSeq(sorted, 1, Len(sorted) - 1), period)
           b == (sorted[Len(sorted)].time \div period) * period
       IN IF Len(rest) > 0 /\ rest[Len(rest)] = b THEN rest
          ELSE Append(rest, b)

\* process_data_history (stable_api.py 239-254): the rows are grouped by
\* their floored time in input order, one row per group, groups ascending,
\* and the last group is dropped
ProcessDataHistory(points, period) ==
  LET bs == BucketsOf(SortByTime(points), period)
      InGroup(b) ==
        SelectSeq(points, LAMBDA x : (x.time \div period) * period = b)
      rows == [i \in 1..Len(bs) |-> Ohlc(bs[i], InGroup(bs[i]))]
  IN IF Len(rows) = 0 THEN <<>> ELSE SubSeq(rows, 1, Len(rows) - 1)

\* the chunks a further history request can add: a run of the points
\* already fetched
Chunks(points) ==
  {SubSeq(points, i, j) : i \in 1..Len(points), j \in 1..Len(points)}

\* the functions are applied to the input: get_candles' pass to the points,
\* and to the points extended by a chunk of themselves (all_candles.extend,
\* stable_api.py 220), and process_data_history to the points
Aggregate(chunk) ==
  /\ agg.pc = "input"
  /\ agg' = [agg EXCEPT
               !.pc = "done",
               !.chunk = chunk,
               !.candles = GetCandlesResample(agg.points, agg.period),
               !.merged = GetCandlesResample(agg.points \o chunk, agg.period),
               !.history = ProcessDataHistory(agg.points, agg.period)]
  /\ UNCHANGED <<connVars, routerVars, histVars, callVars, framesLeft,
                 faultsLeft, teardown, buyVars, opsLeft, notAgg>>

\* ------------------------------------------------ PocketOption.get_candles
\* self.api.getcandles(active, period, count, time_red) sends the history
\* request on the socket, or raises
GetcandlesOutcomes == {"sent", "raise"}

\* get_candles(active, period) is called: all_candles is empty and the slot
\* api.history_data is cleared (stable_api.py 201-210, count_request = 1)
GcStart(period) ==
  /\ gc.pc \in {"idle", "returned"}
  /\ opsLeft > 0
  /\ opsLeft' = opsLeft - 1
  /\ apiv' = [apiv EXCEPT !.history_data = PyNone]
  /\ gc' = [pc |-> "send", period |-> period, i |-> 1, all_candles |-> <<>>,
            sent |-> FALSE, resent |-> FALSE, ret |-> PyNone]
  /\ UNCHANGED <<connVars, ssl_Mutual_exclusion, gv, wsc, histVars, callVars,
                 framesLeft, faultsLeft, teardown, buyVars, notFetch, rp>>

\* the top of the `while True` loop (stable_api.py 211-213, 222-223): the
\* request is sent and the wait begins, or getcandles raises, the error is
\* logged and the loop starts over
GcSend(outcome) ==
  /\ gc.pc = "send"
  /\ gc' = IF outcome = "sent"
             THEN [gc EXCEPT !.pc = "wait", !.i = 1, !.sent = TRUE,
                             !.resent = gc.sent]
           ELSE gc
  /\ UNCHANGED <<connVars, routerVars, histVars, callVars, framesLeft,
                 faultsLeft, teardown, buyVars, opsLeft, notFetch, rp>>

\* one turn of `for i in range(1, 100)` (stable_api.py 214-221): sleep 0.1 s
\* while the slot is empty; after the turn with i = 99 a filled slot is
\* appended to all_candles and aggregated (stable_api.py 224-237), an empty
\* slot sends the loop back to the request
GcWait ==
  /\ gc.pc = "wait"
  /\ IF gc.i < WaitRounds
       THEN gc' = [gc EXCEPT !.i = @ + 1]
     ELSE IF apiv.history_data # PyNone
       THEN gc' = [gc EXCEPT
                     !.pc = "returned",
                     !.all_candles = @ \o apiv.history_data.v,
                     !.ret = GetCandlesResample(gc.all_candles \o
                                                  apiv.history_data.v,
                                                gc.period)]
     ELSE gc' = [gc EXCEPT !.pc = "send"]
  /\ UNCHANGED <<connVars, routerVars, histVars, callVars, framesLeft,
                 faultsLeft, teardown, buyVars, opsLeft, notFetch, rp>>

\* the server sends a history frame while the session is connected
ReceiveHistoryFrame(t, n) ==
  /\ tpc[t] = "serve"
  /\ sock[t] = "open"
  /\ framesLeft > 0
  /\ framesLeft' = framesLeft - 1
  /\ OnMessage(t, n)
  /\ UNCHANGED <<check_websocket_if_error, tpc, attempt, url, ret, tasks,
                 tried, pinged, everOpened, callVars, faultsLeft, teardown,
                 buyVars, opVars>>

\* ------------------------------------------- assets.get_realtime_prices
\* the assets of the call, named by their position in the list
Assets == 1..MaxAssets

\* extract_price (assets.py 15-22): the close of the last row of a non-empty
\* DataFrame as a float, None for anything else
ExtractPrice(candle_data) ==
  IF candle_data.kind = "list" /\ Len(candle_data.v) > 0
    THEN PyNum(candle_data.v[Len(candle_data.v)].close)
  ELSE PyNone

\* a fetch that got a series with a numeric last close
FetchSucceeded(candle_data) == ExtractPrice(candle_data).kind = "num"

\* get_realtime_prices(client, assets) is called (assets.py 24-29): the
\* semaphore is created and gather starts one fetch_price task per asset
RpStart ==
  /\ rp.pc = "idle"
  /\ opsLeft > 0
  /\ opsLeft' = opsLeft - 1
  /\ rp' = [rp EXCEPT !.pc = "running", !.sem = SemaphoreLimit,
                      !.task = [a \in Assets |-> "ready"],
                      !.prices = [a \in Assets |-> PyNone],
                      !.got = [a \in Assets |-> NotJson]]
  /\ UNCHANGED <<connVars, routerVars, histVars, callVars, framesLeft,
                 faultsLeft, teardown, buyVars, notFetch, gc>>

\* fetch_price(asset) gets its first turn on the event loop (assets.py
\* 31-36): the tasks run in the order gather created them; the semaphore is
\* acquired without a wait while its value is positive, and the argument
\* client.get_candles(asset, TIMEFRAME, count=1) of wait_for is evaluated: a
\* plain call that keeps the event loop until it returns
FetchPriceRun(a) ==
  /\ rp.pc = "running"
  /\ rp.task[a] = "ready"
  /\ \A b \in Assets : b < a => rp.task[b] = "done"
  /\ rp.sem > 0
  /\ rp' = [rp EXCEPT !.sem = @ - 1, !.task[a] = "fetching"]
  /\ apiv' = [apiv EXCEPT !.history_data = PyNone]
  /\ gc' = [pc |-> "send", period |-> TIMEFRAME, i |-> 1,
            all_candles |-> <<>>, sent |-> FALSE, resent |-> FALSE,
            ret |-> PyNone]
  /\ UNCHANGED <<connVars, ssl_Mutual_exclusion, gv, wsc, histVars, callVars,
                 framesLeft, faultsLeft, teardown, buyVars, opsLeft,
                 notFetch>>

\* get_candles has returned (assets.py 34-45): wait_for awaits the value,
\* which raises TypeError for a value that is not awaitable; the exception is
\* logged, otherwise a numeric extract_price is stored; the semaphore is
\* released and the task ends
FetchPriceEnd(a) ==
  /\ rp.pc = "running"
  /\ rp.task[a] = "fetching"
  /\ gc.pc = "returned"
  /\ LET out == Await(IF gc.ret = PyNone THEN "None" ELSE "DataFrame")
         price == ExtractPrice(gc.ret)
     IN rp' = [rp EXCEPT
                 !.sem = @ + 1,
                 !.task[a] = "done",
                 !.got[a] = gc.ret,
                 !.prices[a] = IF out = "ok" /\ price.kind = "num"
                                 THEN price ELSE @]
  /\ UNCHANGED <<connVars, routerVars, histVars, callVars, framesLeft,
                 faultsLeft, teardown, buyVars, opsLeft, notFetch, gc>>

\* gather returns when every task has ended, prices is returned
\* (assets.py 46-47)
RpReturn ==
  /\ rp.pc = "running"
  /\ \A a \in Assets : rp.task[a] = "done"
  /\ rp' = [rp EXCEPT !.pc = "returned"]
  /\ UNCHANGED <<connVars, routerVars, histVars, callVars, framesLeft,
                 faultsLeft, teardown, buyVars, opsLeft, notFetch, gc>>

\* ------------------------------------------- WebsocketClient.websocket_listener
\* the server sends frame n on the open socket of thread t: the frame waits
\* in the socket until the listener takes it
Arrive(t, n) ==
  /\ tpc[t] = "serve"
  /\ sock[t] = "open"
  /\ framesLeft > 0
  /\ framesLeft' = framesLeft - 1
  /\ listener' = [listener EXCEPT
                    !.inbox = Append(@, [seq |-> Len(listener.received) + 1,
                                         frame |-> n]),
                    !.received = Append(@, n)]
  /\ UNCHANGED <<connVars, routerVars, histVars, callVars, faultsLeft,
                 teardown, buyVars, opsLeft, notListen>>

\* ListenerReady of a listener that hands each frame to a task of its own
ListenerReady_Spawn(l) == TRUE

\* `await self.on_message(message)` (client.py 78): the loop asks for the
\* next frame only when on_message has returned
ListenerReady(l) == l.pc = "idle"

\* `async for message in ws` (client.py 77) yields the oldest waiting frame
ListenerTake(t) ==
  /\ tpc[t] = "serve"
  /\ sock[t] = "open"
  /\ ListenerReady(listener)
  /\ listener.inbox # <<>>
  /\ listener' = [listener EXCEPT
                    !.pc = "handling",
                    !.cur = Head(listener.inbox).frame,
                    !.inbox = Tail(@),
                    !.dispatched = Append(@, Head(listener.inbox).seq)]
  /\ UNCHANGED <<connVars, routerVars, histVars, callVars, framesLeft,
                 faultsLeft, teardown, buyVars, opsLeft, notListen>>

\* on_message runs for the frame taken (client.py 78, 166-278); an exception
\* it lets through would be logged by the listener (client.py 79-80)
ListenerHandle(t) ==
  /\ tpc[t] = "serve"
  /\ listener.pc = "handling"
  /\ OnMessage(t, listener.cur)
  /\ listener' = [listener EXCEPT !.pc = "idle"]
  /\ UNCHANGED <<check_websocket_if_error, tpc, attempt, url, ret, tasks,
                 tried, pinged, everOpened, callVars, framesLeft, faultsLeft,
                 teardown, buyVars, opsLeft, notListen>>

\* ------------------------------------------------------- main: main loop
Hours == 0..23

\* the test of the low-liquidity pause (main.py 128): a chained comparison,
\* 22 <= utc_hour and utc_hour <= 2
LowLiquidity(utc_hour) == 22 <= utc_hour /\ utc_hour <= 2

\* one iteration of `while True` (main.py 125-131 and the cycle after it):
\* the hour is read; in the pause the loop sleeps 3600 s and starts over,
\* otherwise a trading cycle runs, during which the hour may change
MainIteration ==
  /\ opsLeft > 0
  /\ opsLeft' = opsLeft - 1
  /\ LET utc_hour == ml.clock IN
     IF LowLiquidity(utc_hour)
       THEN ml' = [clock |-> (ml.clock + 1) % 24, utc_hour |-> utc_hour,
                   did |-> "pause", n |-> ml.n + 1]
     ELSE \E h \in {ml.clock, (ml.clock + 1) % 24} :
            ml' = [clock |-> h, utc_hour |-> utc_hour, did |-> "cycle",
                   n |-> ml.n + 1]
  /\ UNCHANGED <<connVars, routerVars, histVars, callVars, framesLeft,
                 faultsLeft, teardown, buyVars, chk, trading_state, tr,
                 notMain>>

\* ------------------------------------------------------ trade.TradingState
Max2(a, b) == IF a >= b THEN a ELSE b
Min2(a, b) == IF a <= b THEN a ELSE b

\* TradingState() (trade.py 19-27)
NewTradingState ==
  [open_orders |-> <<>>, last_trade_time |-> [a \in Assets |-> 0],
   daily_loss |-> 0, initial_daily_balance |-> 0, last_reset_time |-> PyNone,
   consecutive_losses |-> 0, consecutive_wins |-> 0,
   current_trade_percentage |-> TRADE_PERCENTAGE]

\* reset_daily (trade.py 29-36)
ResetDaily(s, balance, current_time) ==
  [s EXCEPT !.daily_loss = 0, !.initial_daily_balance = balance,
            !.last_reset_time = PyNum(current_time),
            !.consecutive_losses = 0, !.consecutive_wins = 0,
            !.current_trade_percentage = TRADE_PERCENTAGE]

\* add_order (trade.py 38-40)
AddOrder(s, order) == [s EXCEPT !.open_orders = Append(@, order)]

\* list.remove: the first equal element goes, ValueError when there is none
Position(q, x) ==
  LET idx == {i \in 1..Len(q) : q[i] = x} IN
  IF idx = {} THEN 0 ELSE CHOOSE i \in idx : \A j \in idx : i <= j

\* remove_order (trade.py 42-47): the ValueError is caught and logged
RemoveOrder(s, order) ==
  LET m == Position(s.open_orders, order) IN
  IF m = 0 THEN s
  ELSE [s EXCEPT !.open_orders =
                   SubSeq(@, 1, m - 1) \o SubSeq(@, m + 1, Len(@))]

\* update_trade_time (trade.py 49-50)
UpdateTradeTime(s, asset, current_time) ==
  [s EXCEPT !.last_trade_time[asset] = current_time]

\* update_loss (trade.py 52-55)
UpdateLoss(s, amount) ==
  [s EXCEPT !.daily_loss = @ + amount, !.consecutive_losses = @ + 1,
            !.consecutive_wins = 0]

\* update_win (trade.py 57-60)
UpdateWin(s, profit) ==
  [s EXCEPT !.daily_loss = @ - profit, !.consecutive_wins = @ + 1,
            !.consecutive_losses = 0]

\* adjust_trade_percentage (trade.py 62-74)
AdjustTradePercentage(s) ==
  LET old == s.current_trade_percentage
      p == IF s.consecutive_losses >= CONSECUTIVE_LOSSES_THRESHOLD
             THEN Max2(TRADE_PERCENTAGE_MIN, (old * 3) \div 10)
           ELSE IF s.consecutive_wins >= CONSECUTIVE_WINS_THRESHOLD
             THEN Min2(TRADE_PERCENTAGE_MAX, (old * 12) \div 10)
           ELSE TRADE_PERCENTAGE
  IN [s EXCEPT !.current_trade_percentage =
                 Max2(TRADE_PERCENTAGE_MIN, Min2(TRADE_PERCENTAGE_MAX, p))]

\* the value of check_daily_loss_limit (trade.py 76-83): the two stop tests
\* are made only when initial_daily_balance > 0
CheckDailyLossLimit(s) ==
  ~ ( /\ s.initial_daily_balance > 0
      /\ \/ s.daily_loss * 100 >= DAILY_LOSS_LIMIT * s.initial_daily_balance
         \/ s.consecutive_losses >= 3 )

\* the state check_daily_loss_limit leaves (trade.py 81)
AfterCheckDailyLossLimit(s) ==
  IF CheckDailyLossLimit(s) THEN s
  ELSE [s EXCEPT !.current_trade_percentage =
                   Max2(TRADE_PERCENTAGE_MIN, (@ * 3) \div 10)]

\* ------------------------------------------------------ trade.execute_trades
\* order ids; the orders open at the start have the first MaxOpenOrders
OrderIds == 1..(MaxOpenOrders + MaxCycles * MaxAssets)

\* the k-th order open at the start
OpenOrder(k) ==
  [id |-> k, asset |-> ((k - 1) % MaxAssets) + 1,
   direction |-> IF k % 2 = 1 THEN "call" ELSE "put", amount |-> 500]

\* int(time.time()) at the start of a cycle
CycleTimes == {1000, 1200, 90000}

\* what check_win returns (stable_api.py 186-193)
WinOutcomes ==
  {[profit |-> PyNum(5), status |-> "win"],
   [profit |-> PyNum(0), status |-> "lose"], WinTimeoutResult}

\* the current price against the Bollinger band of the order's direction;
\* unknown when extract_price gives no price or the bands are missing
BandPositions == {"below", "inside", "above", "unknown"}

\* a balance in cents
Cents(b) == b.v * 100

\* round((current_trade_percentage / 100) * balance, 2) clamped to
\* [1.0, MAX_TRADE_AMOUNT] (trade.py 248-250), in cents
TradeAmount(s, balance) ==
  Max2(100, Min2(MAX_TRADE_AMOUNT,
                 (s.current_trade_percentage * Cents(balance) + 500000)
                   \div 1000000))

\* for o in to_remove: trading_state.remove_order(o) (trade.py 192-193)
RECURSIVE RemoveAll(_, _)
RemoveAll(s, to_remove) ==
  IF to_remove = <<>> THEN s
  ELSE RemoveAll(RemoveOrder(s, Head(to_remove)), Tail(to_remove))

\* execute_trades is entered with trading enabled and a non-empty asset
\* list (trade.py 147-159): the clock is read, and a first call or a call a
\* day after the last reset resets the daily figures if a balance is there
TradeStart(t) ==
  /\ tr.pc = "idle"
  /\ opsLeft > 0
  /\ opsLeft' = opsLeft - 1
  /\ t >= tr.now
  /\ LET s == trading_state
         due == \/ s.last_reset_time = PyNone
                \/ t - s.last_reset_time.v >= DaySeconds
         balance == GetBalance(gv) IN
     trading_state' = IF due /\ balance # PyNone
                        THEN ResetDaily(s, Cents(balance), t)
                      ELSE s
  /\ tr' = [tr EXCEPT !.pc = "orders", !.now = t, !.i = 1,
                      !.to_remove = <<>>,
                      !.skipped = (trading_state.last_reset_time = PyNone
                                   /\ GetBalance(gv) = PyNone)]
  /\ UNCHANGED <<connVars, routerVars, histVars, callVars, framesLeft,
                 faultsLeft, teardown, buyVars, chk, ml, notMain>>

\* one turn of the loop over the open orders (trade.py 162-191). bands is
\* what calculate_indicators gave for the asset, r the object get_candles
\* returned, pos the price against the bands, win what check_win returns.
\* The value of get_candles is awaited (trade.py 168); an exception sends
\* the order to to_remove without any update (trade.py 189-191)
TradeOrder(bands, r, pos, win) ==
  /\ tr.pc = "orders"
  /\ tr.i <= Len(trading_state.open_orders)
  /\ LET order == trading_state.open_orders[tr.i]
         s == trading_state
         noprice == r = "None" \/ pos = "unknown" \/ bands = "None"
         hit == \/ order.direction = "call" /\ pos = "below"
                \/ order.direction = "put" /\ pos = "above"
         s1 == IF hit THEN UpdateLoss(s, order.amount) ELSE s
         rm1 == IF hit THEN Append(tr.to_remove, order) ELSE tr.to_remove
         settled == win.status \in {"win", "lose"}
         s2 == IF win.status = "win"
                 THEN UpdateWin(s1, IF win.profit = PyNone THEN 0
                                    ELSE Cents(win.profit))
               ELSE IF win.status = "lose" THEN UpdateLoss(s1, order.amount)
               ELSE s1
         rm2 == IF settled THEN Append(rm1, order) ELSE rm1
         n == (IF hit THEN 1 ELSE 0) + (IF settled THEN 1 ELSE 0) IN
     IF Await(r) # "ok"
       THEN /\ tr' = [tr EXCEPT !.i = @ + 1,
                                !.to_remove = Append(@, order)]
            /\ UNCHANGED trading_state
     ELSE IF noprice
       THEN /\ tr' = [tr EXCEPT !.i = @ + 1]
            /\ UNCHANGED trading_state
     ELSE /\ trading_state' = s2
          /\ tr' = [tr EXCEPT !.i = @ + 1, !.to_remove = rm2,
                              !.updates[order.id] = @ + n]
  /\ UNCHANGED <<connVars, routerVars, histVars, callVars, framesLeft,
                 faultsLeft, teardown, buyVars, opsLeft, chk, ml,
                 notMain>>

\* after the loop (trade.py 192-195): the orders of to_remove are removed
\* and the trade percentage is adjusted
TradeRemove ==
  /\ tr.pc = "orders"
  /\ tr.i > Len(trading_state.open_orders)
  /\ trading_state' =
       AdjustTradePercentage(RemoveAll(trading_state, tr.to_remove))
  /\ tr' = [tr EXCEPT !.pc = "assets", !.i = 1, !.to_remove = <<>>,
                      !.removes = [k \in OrderIds |->
                         @[k] + Cardinality({j \in 1..Len(tr.to_remove) :
                                               tr.to_remove[j].id = k})]]
  /\ UNCHANGED <<connVars, routerVars, histVars, callVars, framesLeft,
                 faultsLeft, teardown, buyVars, opsLeft, chk, ml,
                 notMain>>

\* what buy returns (stable_api.py 170-172)
BuyOutcomes == {"accepted", "timeout"}

\* one turn of the loop over the assets (trade.py 197-275). r is the object
\* get_candles returned, signal what get_signal_for_strategy gives, outcome
\* how the buy call ends. The value of get_candles is awaited (trade.py 211)
\* and an exception skips the asset (trade.py 216-218)
TradeAsset(r, signal, outcome) ==
  /\ tr.pc = "assets"
  /\ tr.i <= MaxAssets
  /\ LET asset == tr.i
         s == trading_state
         balance == GetBalance(gv)
         id == MaxOpenOrders + tr.bought + 1
         order == [id |-> id, asset |-> asset, direction |-> signal,
                   amount |-> TradeAmount(s, balance)]
         skip == \/ \E j \in 1..Len(s.open_orders) :
                      s.open_orders[j].asset = asset
                 \/ tr.now - s.last_trade_time[asset] < TRADE_COOLDOWN
                 \/ Await(r) # "ok"
                 \/ r = "None"
                 \/ signal = "None"
                 \/ balance = PyNone IN
     IF skip
       THEN /\ tr' = [tr EXCEPT !.i = @ + 1, !.seen = @ + 1]
            /\ UNCHANGED <<trading_state, gv>>
     ELSE IF ~CheckDailyLossLimit(s)
       THEN /\ trading_state' = AfterCheckDailyLossLimit(s)
            /\ tr' = [tr EXCEPT !.i = @ + 1, !.seen = @ + 1]
            /\ UNCHANGED gv
     ELSE /\ tr' = [tr EXCEPT !.i = @ + 1, !.seen = @ + 1,
                              !.bought = @ + 1,
                              !.atBuy = [consecutive_losses |->
                                           s.consecutive_losses,
                                         daily_loss |-> s.daily_loss,
                                         initial_daily_balance |->
                                           s.initial_daily_balance]]
          /\ IF outcome = "accepted"
               THEN /\ gv' = [gv EXCEPT
                              !.result = PyBool(TRUE),
                              !.order_data =
                                PyDict([requestId |-> "buy", id |-> id])]
                    /\ trading_state' =
                         UpdateTradeTime(AddOrder(s, order), asset, tr.now)
             ELSE /\ gv' = [gv EXCEPT !.result = PyNone,
                                      !.order_data = PyNone]
                  /\ UNCHANGED trading_state
  /\ UNCHANGED <<connVars, ssl_Mutual_exclusion, wsc, apiv, histVars,
                 callVars, framesLeft, faultsLeft, teardown, buyVars,
                 opsLeft, chk, ml, notMain>>

\* execute_trades returns
TradeEnd ==
  /\ tr.pc = "assets"
  /\ tr.i > MaxAssets
  /\ tr' = [tr EXCEPT !.pc = "idle", !.cycles = @ + 1]
  /\ UNCHANGED <<connVars, routerVars, histVars, callVars, framesLeft,
                 faultsLeft, teardown, buyVars, opsLeft, chk, trading_state,
                 ml, notMain>>

\* ------------------------------------------------------------------- Init
\* the module global_value when it is imported: nothing is known yet
InitGlobalValue ==
  /\ ssl_Mutual_exclusion = FALSE
  /\ gv = [balance_updated |-> FALSE, balance |-> PyNone,
           balance_id |-> PyNone, balance_type |-> PyNone,
           result |-> PyNone, order_data |-> PyNone]

\* global_value, WebsocketClient.__init__ and the API object before any frame
InitRouter ==
  /\ InitGlobalValue
  /\ wsc = [updateHistoryNew |-> FALSE, updateStream |-> FALSE,
            history_data_ready |-> FALSE, successCloseOrder |-> FALSE,
            wait_second_message |-> FALSE, updateClosedDeals |-> FALSE]
  /\ apiv = [order_async |-> PyNone, history_data |-> PyNone,
             historyNew |-> PyNone, server_timestamp |-> PyNone]
  /\ lastSent = <<>>
  /\ nauth = FALSE
  /\ credAfterNauth = FALSE

\* no disconnect() and no buy() call yet; nothing is said of trading_state
\* and of the hour
InitCallsNoTrading ==
  /\ teardown = [done |-> FALSE, was_connected |-> FALSE,
                 was_alive |-> FALSE, socket_closed |-> FALSE,
                 tasks_cancelled |-> FALSE, loop_closed |-> FALSE,
                 thread_joined |-> FALSE]
  /\ callPc = "idle"
  /\ bpc = "idle"
  /\ start_t = 0
  /\ now = 0
  /\ bret = [accepted |-> PyNone, id |-> PyNone]
  /\ arrived = -1
  /\ cw = [pc |-> "idle", id_number |-> PyNone, start_t |-> 0,
           ret |-> [profit |-> PyNone, status |-> "-"], reported |-> FALSE]
  /\ bal = [called |-> FALSE, ret |-> PyNone]
  /\ supplied = {}
  /\ candle_cache = [k \in CacheKeys |->
                       [present |-> FALSE, value |-> "None", expires |-> 0]]
  /\ mono = 0
  /\ ci = [pc |-> "idle", done |-> FALSE, key |-> "A_60_9000",
           hit |-> FALSE, fresh |-> FALSE, attempt_number |-> 1,
           requests |-> 0, excs |-> <<>>, failed |-> FALSE,
           got |-> [k \in CacheKeys |-> "-"]]
  /\ fetched = [k \in CacheKeys |-> -1]
  /\ gc = [pc |-> "idle", period |-> 10, i |-> 1, all_candles |-> <<>>,
           sent |-> FALSE, resent |-> FALSE, ret |-> PyNone]
  /\ rp = [pc |-> "idle", sem |-> SemaphoreLimit,
           task |-> [a \in Assets |-> "none"],
           prices |-> [a \in Assets |-> PyNone],
           got |-> [a \in Assets |-> NotJson]]
  /\ ind = [pc |-> "idle", key |-> "60_A",
            cache |-> [k \in IndKeys |-> [present |-> FALSE, expires |-> 0]],
            calls |-> 0, hit |-> FALSE, fresh |-> FALSE, computed |-> 0,
            last |-> [k \in IndKeys |-> -1]]
  /\ cc = [pc |-> "idle", task |-> [c \in Callers |-> "none"],
           key |-> [c \in Callers |-> "A_60_9000"],
           upstream |-> [k \in CacheKeys |-> 0]]
  /\ listener = [pc |-> "idle", inbox |-> <<>>, cur |-> "-",
                 received |-> <<>>, dispatched |-> <<>>]
  /\ chk = [called |-> FALSE, ret |-> FALSE, open |-> FALSE, flag |-> FALSE]
  /\ tr = [pc |-> "idle", now |-> 0, i |-> 1, to_remove |-> <<>>,
           skipped |-> FALSE, updates |-> [k \in OrderIds |-> 0],
           removes |-> [k \in OrderIds |-> 0], seen |-> 0, bought |-> 0,
           atBuy |-> [consecutive_losses |-> 0, daily_loss |-> 0,
                      initial_daily_balance |-> 0],
           cycles |-> 0]
  /\ orders = [k \in 1..MaxBuys |-> {}]
  /\ closed = {}
  /\ ob = [pc |-> [b \in Buyers |-> "idle"],
           start_t |-> [b \in Buyers |-> 0],
           ret |-> [b \in Buyers |-> [accepted |-> PyNone, id |-> PyNone]],
           from |-> [b \in Buyers |-> 0],
           serial |-> 0, held |-> 0]

\* trading_state = TradingState() (trade.py 85)
InitCalls ==
  /\ InitCallsNoTrading
  /\ trading_state = NewTradingState
  /\ ml = [clock |-> 0, utc_hour |-> 0, did |-> "-", n |-> 0]

\* no aggregation input
InitNoAgg ==
  agg = [pc |-> "off", points |-> <<>>, period |-> 10, chunk |-> <<>>,
         candles |-> PyNone, merged |-> PyNone, history |-> <<>>]

\* state after PocketOption(ssid, demo): no thread, no socket
InitSession ==
  /\ InitRouter
  /\ InitCalls
  /\ InitNoAgg
  /\ websocket_is_connected = FALSE
  /\ check_websocket_if_error = FALSE
  /\ tpc = [t \in Threads |-> "idle"]
  /\ attempt = [t \in Threads |-> 0]
  /\ url = [t \in Threads |-> 1]
  /\ ret = [t \in Threads |-> PyNone]
  /\ sock = [t \in Threads |-> "none"]
  /\ tasks = [t \in Threads |-> "none"]
  /\ tried = [t \in Threads |-> <<>>]
  /\ authed = [t \in Threads |-> FALSE]
  /\ scen = [t \in Threads |-> "off"]
  /\ pinged = [t \in Threads |-> FALSE]
  /\ everOpened = FALSE
  /\ callRet = PyNone
  /\ started = 0
  /\ buysLeft = 0
  /\ opsLeft = 0

\* one connect() call; the server sends up to MaxFrames handshake frames
Init ==
  /\ InitSession
  /\ callsLeft = 1
  /\ framesLeft = MaxFrames
  /\ faultsLeft = -1

\* up to MaxCalls connect() calls; the server sends up to RaceFrames frames
\* and refuses or closes sockets up to RaceFaults times
InitRace ==
  /\ InitSession
  /\ callsLeft = MaxCalls
  /\ framesLeft = RaceFrames
  /\ faultsLeft = RaceFaults

\* the transport: caller, connect threads and server
Transport ==
  \/ StartConnect
  \/ EndConnect
  \/ \E t \in Threads : ApiConnect(t)
  \/ \E t \in Threads : ApiClose(t)
  \/ \E t \in Threads : WhileTest(t)
  \/ \E t \in Threads : \E o \in {"ok", "ConnectionClosed", "Exception"} :
       OpenSocket(t, o)
  \/ \E t \in Threads : TasksStart(t)
  \/ \E t \in Threads : SendPing(t)
  \/ \E t \in Threads : \E n \in HandshakeFrames : Receive(t, n)
  \/ \E t \in Threads : ServerClose(t)
  \/ \E t \in Threads : GatherDone(t)
  \/ \E t \in Threads : NextRegion(t)
  \/ \E t \in Threads : NextPass(t)
  \/ \E t \in Threads : ConnectReturn(t)

\* the caller may end the session with disconnect()
Next ==
  \/ Transport
  \/ \E f \in {"none", "close", "cancel", "loop"} : Disconnect(f)

Spec == Init /\ [][Next]_vars

NextRace == Transport

SpecRace == InitRace /\ [][NextRace]_vars

\* steps of the client itself; the server's frames and closes, and the
\* caller's decision to call, are not forced
ClientStep(t) ==
  \/ ApiConnect(t)
  \/ ApiClose(t)
  \/ WhileTest(t)
  \/ \E o \in {"ok", "ConnectionClosed", "Exception"} : OpenSocket(t, o)
  \/ TasksStart(t)
  \/ SendPing(t)
  \/ GatherDone(t)
  \/ NextRegion(t)
  \/ NextPass(t)
  \/ ConnectReturn(t)

FairSpec ==
  /\ Init
  /\ [][Transport]_vars
  /\ WF_vars(EndConnect)
  /\ \A t \in Threads : WF_vars(ClientStep(t))

\* the session after a connect() call that opened the first region and was
\* authenticated there
InitOpened ==
  /\ InitRouter
  /\ websocket_is_connected = TRUE
  /\ check_websocket_if_error = FALSE
  /\ tpc = [t \in Threads |-> IF t = 1 THEN "serve" ELSE "idle"]
  /\ attempt = [t \in Threads |-> IF t = 1 THEN 1 ELSE 0]
  /\ url = [t \in Threads |-> 1]
  /\ ret = [t \in Threads |-> PyNone]
  /\ sock = [t \in Threads |-> IF t = 1 THEN "open" ELSE "none"]
  /\ tasks = [t \in Threads |-> IF t = 1 THEN "running" ELSE "none"]
  /\ tried = [t \in Threads |-> IF t = 1 THEN <<1>> ELSE <<>>]
  /\ authed = [t \in Threads |-> t = 1]
  /\ scen = [t \in Threads |-> IF t = 1 THEN "auth" ELSE "off"]
  /\ pinged = [t \in Threads |-> FALSE]
  /\ everOpened = TRUE
  /\ callRet = PyBool(TRUE)
  /\ started = 1
  /\ callsLeft = 0

\* such a session before any other call
InitAuthenticated ==
  /\ InitOpened
  /\ InitCalls

\* such a session whose server neither refuses nor closes a socket
InitServing ==
  /\ InitAuthenticated
  /\ faultsLeft = 0

\* the caller makes up to MaxBuys buy() calls and the server sends up to
\* MaxOrderFrames order frames
InitBuy ==
  /\ InitServing
  /\ InitNoAgg
  /\ framesLeft = MaxOrderFrames
  /\ buysLeft = MaxBuys
  /\ opsLeft = 0

NextBuy ==
  \/ BuyStart
  \/ BuyPoll
  \/ \E n \in BuyFrames : ReceiveOrderFrame(1, n)

SpecBuy == InitBuy /\ [][NextBuy]_vars

\* the polling loop always gets its turn
FairSpecBuy == InitBuy /\ [][NextBuy]_vars /\ WF_vars(BuyPoll)


\* one check_win() call; the server sends up to MaxCloseFrames close-order
\* frames, before and during the call
InitWin ==
  /\ InitServing
  /\ InitNoAgg
  /\ framesLeft = MaxCloseFrames
  /\ buysLeft = 0
  /\ opsLeft = 1

NextWin ==
  \/ WinStart
  \/ WinPoll
  \/ \E n \in CloseFrames : ReceiveCloseFrame(1, n)

SpecWin == InitWin /\ [][NextWin]_vars

\* the polling loop always gets its turn
FairSpecWin == InitWin /\ [][NextWin]_vars /\ WF_vars(WinPoll)


\* up to MaxBalanceCalls get_balance() calls; the server sends up to
\* MaxBalanceFrames balance frames
InitBalance ==
  /\ InitServing
  /\ InitNoAgg
  /\ framesLeft = MaxBalanceFrames
  /\ buysLeft = 0
  /\ opsLeft = MaxBalanceCalls

NextBalance ==
  \/ BalanceCall
  \/ \E n \in BalanceFrames : ReceiveBalanceFrame(1, n)

SpecBalance == InitBalance /\ [][NextBalance]_vars


\* calculate_indicators makes up to MaxLookups candle lookups while the
\* timer runs
InitCache ==
  /\ InitServing
  /\ InitNoAgg
  /\ framesLeft = 0
  /\ buysLeft = 0
  /\ opsLeft = MaxLookups

NextCache ==
  \/ Tick
  \/ \E k \in CacheKeys : CandleLookup(k)
  \/ \E r \in GetCandlesReturns : FetchAttempt(r)

SpecCache == InitCache /\ [][NextCache]_vars


\* the aggregation functions applied to every point list of AggInputs at
\* every period of AggPeriods
InitAgg ==
  /\ InitServing
  /\ framesLeft = 0
  /\ buysLeft = 0
  /\ opsLeft = 0
  /\ \E pts \in AggInputs : \E per \in AggPeriods :
       agg = [pc |-> "input", points |-> pts, period |-> per,
              chunk |-> <<>>, candles |-> PyNone, merged |-> PyNone,
              history |-> <<>>]

NextAgg == \E chunk \in Chunks(agg.points) \cup {<<>>} : Aggregate(chunk)

SpecAgg == InitAgg /\ [][NextAgg]_vars


\* up to MaxFetches get_candles() calls; the server sends up to
\* MaxHistoryFrames history frames
InitFetch ==
  /\ InitServing
  /\ InitNoAgg
  /\ framesLeft = MaxHistoryFrames
  /\ buysLeft = 0
  /\ opsLeft = MaxFetches

NextFetch ==
  \/ \E p \in AggPeriods : GcStart(p)
  \/ \E o \in GetcandlesOutcomes : GcSend(o)
  \/ GcWait
  \/ \E n \in HistoryFrames : ReceiveHistoryFrame(1, n)

SpecFetch == InitFetch /\ [][NextFetch]_vars

\* the loops of get_candles always get their turn, and a request that can be
\* sent is sent; the server's frames are not forced
FairSpecFetch ==
  /\ InitFetch
  /\ [][NextFetch]_vars
  /\ WF_vars(GcSend("sent"))
  /\ WF_vars(GcWait)


\* one get_realtime_prices() call for MaxAssets assets; the server sends up
\* to two history frames (event and data) per asset
InitPrices ==
  /\ InitServing
  /\ InitNoAgg
  /\ framesLeft = 2 * MaxAssets
  /\ buysLeft = 0
  /\ opsLeft = 1

NextPrices ==
  \/ RpStart
  \/ \E a \in Assets : FetchPriceRun(a)
  \/ \E o \in GetcandlesOutcomes : GcSend(o)
  \/ GcWait
  \/ \E a \in Assets : FetchPriceEnd(a)
  \/ RpReturn
  \/ \E n \in HistoryFrames : ReceiveHistoryFrame(1, n)

SpecPrices == InitPrices /\ [][NextPrices]_vars

\* the event loop runs every task that can run, the loops of get_candles
\* always get their turn; the server's frames are not forced
FairSpecPrices ==
  /\ InitPrices
  /\ [][NextPrices]_vars
  /\ WF_vars(RpStart)
  /\ \A a \in Assets : WF_vars(FetchPriceRun(a))
  /\ \A a \in Assets : WF_vars(FetchPriceEnd(a))
  /\ WF_vars(RpReturn)
  /\ WF_vars(GcSend("sent"))
  /\ WF_vars(GcWait)


\* one call, buy() or check_win(), made while the socket is open; the
\* server closes the socket once, the tasks of the connection end and gather
\* returns
InitClose ==
  /\ InitAuthenticated
  /\ InitNoAgg
  /\ framesLeft = 0
  /\ faultsLeft = 1
  /\ \/ buysLeft = 1 /\ opsLeft = 0
     \/ buysLeft = 0 /\ opsLeft = 1

\* buy() called on the open connection
BuyOnOpen == sock[1] = "open" /\ BuyStart

\* check_win() called on the open connection
WinOnOpen == sock[1] = "open" /\ WinStart

NextClose ==
  \/ BuyOnOpen
  \/ BuyPoll
  \/ WinOnOpen
  \/ WinPoll
  \/ ServerClose(1)
  \/ SendPing(1)
  \/ GatherDone(1)

SpecClose == InitClose /\ [][NextClose]_vars


\* the server sends up to MaxListenFrames frames of any kind to the listener
\* of the authenticated connection
InitListen ==
  /\ InitServing
  /\ InitNoAgg
  /\ framesLeft = MaxListenFrames
  /\ buysLeft = 0
  /\ opsLeft = 0

NextListen ==
  \/ \E n \in RouterFrames : Arrive(1, n)
  \/ ListenerTake(1)
  \/ ListenerHandle(1)

SpecListen == InitListen /\ [][NextListen]_vars

\* calculate_indicators is called while the timer runs, up to MaxLookups
\* candle lookups in all
InitInd ==
  /\ InitServing
  /\ InitNoAgg
  /\ framesLeft = 0
  /\ buysLeft = 0
  /\ opsLeft = MaxLookups

NextInd ==
  \/ Tick
  \/ \E k \in IndKeys : IndStart(k)
  \/ IndLookup
  \/ \E r \in GetCandlesReturns : FetchAttempt(r)
  \/ IndEnd

SpecInd == InitInd /\ [][NextInd]_vars

\* MaxCallers concurrent candle lookups; the server sends up to two history
\* frames (event and data) per caller
InitCollapse ==
  /\ InitServing
  /\ InitNoAgg
  /\ framesLeft = 2 * MaxCallers
  /\ buysLeft = 0
  /\ opsLeft = 1

NextCollapse ==
  \/ CcSpawn
  \/ \E c \in Callers : CcRun(c)
  \/ \E o \in GetcandlesOutcomes : GcSend(o)
  \/ GcWait
  \/ \E c \in Callers : CcEnd(c)
  \/ CcReturn
  \/ \E n \in HistoryFrames : ReceiveHistoryFrame(1, n)

SpecCollapse == InitCollapse /\ [][NextCollapse]_vars

\* MaxBuyers threads call buy() once each on the one session and the server
\* sends up to MaxOverlapFrames order frames
InitOverlap ==
  /\ InitServing
  /\ InitNoAgg
  /\ framesLeft = MaxOverlapFrames
  /\ buysLeft = 0
  /\ opsLeft = 0

\* the calls are made within OverlapWindow polling periods of each other
ObStartInWindow(b) == now <= OverlapWindow /\ ObStart(b)

NextOverlap ==
  \/ \E b \in Buyers : ObStartInWindow(b)
  \/ \E b \in Buyers : ObPoll(b)
  \/ \E n \in BuyFrames : ReceiveOverlapFrame(1, n)

SpecOverlap == InitOverlap /\ [][NextOverlap]_vars

\* the authenticated session receives up to one balance frame, the server
\* closes the socket and refuses the next attempt, and the main loop calls
\* check_connection up to MaxChecks times
InitCheck ==
  /\ InitAuthenticated
  /\ InitNoAgg
  /\ framesLeft = 1
  /\ faultsLeft = 2
  /\ buysLeft = 0
  /\ opsLeft = MaxChecks

NextCheck ==
  \/ CheckConnection
  \/ \E n \in BalanceFrames : ReceiveBalanceFrame(1, n)
  \/ ServerClose(1)
  \/ SendPing(1)
  \/ GatherDone(1)
  \/ NextRegion(1)
  \/ \E o \in {"ok", "ConnectionClosed", "Exception"} : OpenSocket(1, o)
  \/ TasksStart(1)
  \/ NextPass(1)
  \/ WhileTest(1)

SpecCheck == InitCheck /\ [][NextCheck]_vars

\* the main loop runs up to MaxCycles execute_trades() cycles on the
\* authenticated session, which receives up to one balance frame. The
\* trading state the first cycle finds is an input: up to MaxOpenOrders open
\* orders, no or three consecutive losses, no or a 15 USD daily loss, and
\* either never reset or reset at time 0 with a balance of 100 USD
InitTrade ==
  /\ InitOpened
  /\ InitCallsNoTrading
  /\ InitNoAgg
  /\ faultsLeft = 0
  /\ framesLeft = 1
  /\ buysLeft = 0
  /\ opsLeft = MaxCycles
  /\ ml = [clock |-> 0, utc_hour |-> 0, did |-> "-", n |-> 0]
  /\ \E n \in 0..MaxOpenOrders, losses \in {0, 3}, loss \in {0, 1500},
        reset \in BOOLEAN :
       trading_state =
         [NewTradingState EXCEPT
            !.open_orders = [k \in 1..n |-> OpenOrder(k)],
            !.consecutive_losses = losses,
            !.daily_loss = loss,
            !.initial_daily_balance = IF reset THEN 10000 ELSE 0,
            !.last_reset_time = IF reset THEN PyNum(0) ELSE PyNone]

NextTrade ==
  \/ \E t \in CycleTimes : TradeStart(t)
  \/ \E bands \in {"known", "None"}, r \in GetCandlesReturns,
        pos \in BandPositions, win \in WinOutcomes :
       TradeOrder(bands, r, pos, win)
  \/ TradeRemove
  \/ \E r \in GetCandlesReturns, signal \in {"call", "put", "None"},
        outcome \in BuyOutcomes :
       TradeAsset(r, signal, outcome)
  \/ TradeEnd
  \/ \E n \in BalanceFrames : ReceiveBalanceFrame(1, n)

SpecTrade == InitTrade /\ [][NextTrade]_vars

\* the main loop makes up to MaxIterations iterations, entered at any hour
InitMain ==
  /\ InitOpened
  /\ InitCallsNoTrading
  /\ InitNoAgg
  /\ trading_state = NewTradingState
  /\ faultsLeft = 0
  /\ framesLeft = 0
  /\ buysLeft = 0
  /\ opsLeft = MaxIterations
  /\ \E h \in Hours : ml = [clock |-> h, utc_hour |-> h, did |-> "-", n |-> 0]

NextMain == MainIteration

SpecMain == InitMain /\ [][NextMain]_vars

\* the server sends up to MaxCloseFrames close-order frames, then
\* check_win() is called once
InitSettled ==
  /\ InitServing
  /\ InitNoAgg
  /\ framesLeft = MaxCloseFrames
  /\ buysLeft = 0
  /\ opsLeft = 1

\* the frames arrive before the call
DeliverBeforeCall(n) == cw.pc = "idle" /\ DeliverCloseFrame(1, n)

NextSettled ==
  \/ \E n \in CloseFrames : DeliverBeforeCall(n)
  \/ WinStart
  \/ WinPoll

SpecSettled == InitSettled /\ [][NextSettled]_vars

\* the caller makes up to MaxBuys buy() calls one after another; the server
\* answers each command with its confirmation event and its response, at
\* any time after the command
InitAnswers ==
  /\ InitServing
  /\ InitNoAgg
  /\ framesLeft = 2 * MaxBuys
  /\ buysLeft = MaxBuys
  /\ opsLeft = 0

NextAnswers ==
  \/ BuyStart
  \/ BuyPoll
  \/ \E k \in 1..MaxBuys, part \in {"event", "response"} :
       ServerAnswer(1, k, part)

SpecAnswers == InitAnswers /\ [][NextAnswers]_vars

\* ================================================================ claims

\* the regions a connect whose every attempt fails has tried when it returns:
\* max_attempts passes over the region list, each in list order
AllPasses ==
  [i \in 1..(max_attempts * NumRegions) |-> ((i - 1) % NumRegions) + 1]

\* C1: when every socket-open attempt of the run has failed, a connect that
\* has returned tried every region in list order once per pass for exactly 5
\* passes, returned False, and the connected flag is False.
C1_AllAttemptsFail ==
  \A t \in Threads :
    (tpc[t] = "done" /\ ~everOpened) =>
      /\ tried[t] = AllPasses
      /\ ret[t] = PyBool(FALSE)
      /\ websocket_is_connected = FALSE

C1_Witness ==
  \E t \in Threads :
    /\ tpc[t] = "done"
    /\ ~everOpened
    /\ Len(tried[t]) = max_attempts * NumRegions
    /\ check_websocket_if_error

\* C2: success (the connected flag, or True returned by either connect) is
\* reported only if a successauth event was received on a connection.
C2_SuccessOnlyAfterAuth ==
  ( \/ websocket_is_connected
    \/ callRet = PyBool(TRUE)
    \/ \E t \in Threads : ret[t] = PyBool(TRUE) )
  => \E t \in Threads : authed[t]

C4_UnauthenticatedSocketTornDown ==
  \A t \in Threads :
    (sock[t] = "open" /\ ~authed[t])
      ~> (sock[t] # "open" \/ authed[t] \/ framesLeft = 0)

\* C5: after a NotAuthorized frame no socket of the session is open and the
\* credential is never sent again.
C5_NoRetryAfterNotAuthorized ==
  nauth => (~credAfterNauth /\ \A t \in Threads : sock[t] # "open")

\* C6: after sockets were closed by the server (no NotAuthorized frame was
\* involved) the transport never reports connected while no socket is open
\* and no connect thread is left to make a further attempt.
C6_NeverConnectedWithoutSocket ==
  ~ ( /\ websocket_is_connected
      /\ ~nauth
      /\ started > 0
      /\ \A t \in Threads : sock[t] # "open"
      /\ \A t \in Threads : tpc[t] \in {"idle", "done"} )

\* C7: disconnect() performs every later teardown step whichever earlier step
\* fails: the tasks are cancelled, the loop is closed and a live websocket
\* thread is joined.
C7_TeardownCompletes ==
  teardown.done =>
    /\ teardown.tasks_cancelled
    /\ teardown.loop_closed
    /\ teardown.was_alive => teardown.thread_joined

\* C8: at every moment the session has at most one open socket.
C8_AtMostOneSocket ==
  Cardinality({t \in Threads : sock[t] = "open"}) <= 1

\* C9: a buy call always returns, it never polls past its 5-second
\* deadline, and a buy call that returned without both completion parts
\* (successopenOrder event and buy response frame) having arrived returned
\* (False, None).
C9_BuyTimesOut ==
  /\ [](bpc = "poll" => now - start_t <= BuyDeadline * PollsPerSecond)
  /\ []((bpc = "returned" /\ arrived = -1) =>
          bret = [accepted |-> PyBool(FALSE), id |-> PyNone])
  /\ (bpc = "poll") ~> (bpc = "returned")

C9_Witness ==
  /\ bpc = "returned"
  /\ arrived = -1
  /\ now - start_t = BuyDeadline * PollsPerSecond
  /\ gv.order_data # PyNone
  /\ bret = [accepted |-> PyBool(FALSE), id |-> PyNone]

\* C10: buy never returns accepted=True together with an absent order id.
C10_NeverAcceptedWithoutId ==
  bpc = "returned" =>
    ~(bret.accepted = PyBool(TRUE) /\ bret.id = PyNone)


\* C11: a check_win call always returns; it returns win or lose only from a
\* tracked close-order record whose first deal has the id asked for; and a
\* call during which no tracked record named the id returns (None, unknown)
\* when the 120-second deadline has passed, not earlier and not later.
C11_CheckWinUnknown ==
  /\ [][(cw.pc = "poll" /\ cw'.pc = "returned"
          /\ cw'.ret.status \in {"win", "lose"})
        => Reports(apiv.order_async, cw.id_number)]_vars
  /\ []((cw.pc = "returned" /\ ~cw.reported) =>
          /\ cw.ret = [profit |-> PyNone, status |-> "unknown"]
          /\ now - cw.start_t = WinDeadline * PollsPerSecond)
  /\ (cw.pc = "poll") ~> (cw.pc = "returned")

C11_Witness ==
  /\ cw.pc = "returned"
  /\ ~cw.reported
  /\ cw.id_number = PyStr("o1")
  /\ apiv.order_async # PyNone
  /\ cw.ret = [profit |-> PyNone, status |-> "unknown"]
  /\ now - cw.start_t = WinDeadline * PollsPerSecond


\* C12: a get_balance call returns a value only if a balance data frame of
\* the session carried that value; before any such frame it returns None
\* (a successupdateBalance event alone supplies no value).
C12_BalanceOnlyIfSupplied ==
  (bal.called /\ bal.ret # PyNone) => bal.ret \in supplied

C12_Witness ==
  /\ bal.called
  /\ bal.ret = PyNum(50)
  /\ PyNum(100) \in supplied
  /\ opsLeft = 0


\* C13: a candle lookup for a key whose series was obtained less than the
\* TTL (300 s) ago is served from the cache and makes no upstream history
\* request.
C13_CachedLookupMakesNoRequest ==
  (ci.done /\ ci.fresh) => (ci.hit /\ ci.requests = 0)

WellFormedSeries(cs, period) ==
  \A i \in 1..Len(cs) :
    /\ cs[i].time % period = 0
    /\ i < Len(cs) => cs[i].time < cs[i + 1].time
    /\ ~cs[i].nan
    /\ cs[i].low <= cs[i].open /\ cs[i].open <= cs[i].high
    /\ cs[i].low <= cs[i].close /\ cs[i].close <= cs[i].high

\* C18: for every point list the series of get_candles' resample pass and of
\* process_data_history have strictly increasing unique timestamps that are
\* multiples of the period, and every candle has low <= open <= high and
\* low <= close <= high.
C18_SeriesWellFormed ==
  agg.pc = "done" =>
    /\ agg.candles.kind = "list" =>
         WellFormedSeries(agg.candles.v, agg.period)
    /\ WellFormedSeries(agg.history, agg.period)

\* C19: aggregating a point list extended by a chunk of its own points gives
\* the series of the point list itself.
C19_IdempotentUnderDuplication ==
  agg.pc = "done" => agg.merged = agg.candles

C15_GetCandlesTerminates ==
  (gc.pc \in {"send", "wait"}) ~> (gc.pc = "returned")


\* C16: during get_realtime_prices at most 10 candle fetches are in flight
\* at any moment, and the fetch of every asset of the call is eventually
\* admitted.
C16_BoundedAndAdmitted ==
  /\ [](Cardinality({a \in Assets : rp.task[a] = "fetching"})
          <= SemaphoreLimit)
  /\ \A a \in Assets :
       (rp.pc = "running") ~> (rp.task[a] \in {"fetching", "done"})

\* C17: the map get_realtime_prices returns has a price for exactly the
\* assets whose fetch got a series with a numeric last close.
C17_PricesOfSucceededFetches ==
  rp.pc = "returned" =>
    \A a \in Assets : (rp.prices[a] # PyNone) <=> FetchSucceeded(rp.got[a])


\* C21: a get_candles call whose history batch held no point returns an
\* empty candle series, not None.
C21_EmptyBatchGivesEmptySeries ==
  (gc.pc = "returned" /\ gc.all_candles = <<>>) => gc.ret = PyList(<<>>)


\* C22: a buy or check_win call that is pending when the connection closes
\* is failed when the connection is torn down: it is no longer polling once
\* the tasks of the connection have ended and gather has returned, and it
\* does not return its timeout result.
C22_PendingFailedAtTeardown ==
  /\ [](~(bpc = "poll" /\ tpc[1] # "serve"))
  /\ [](~(cw.pc = "poll" /\ tpc[1] # "serve"))
  /\ [][(bpc = "poll" /\ bpc' = "returned" /\ sock[1] # "open"
          /\ ~BuyComplete(gv))
        => bret' # BuyTimeoutResult]_vars
  /\ [][(cw.pc = "poll" /\ cw'.pc = "returned" /\ sock[1] # "open"
          /\ ~Reports(apiv.order_async, cw.id_number))
        => cw'.ret # WinTimeoutResult]_vars


\* C23: the heartbeat frame 42["ps"] is sent on a socket only after a
\* successauth event was received on that socket.
C23_PingOnlyWhenAuthenticated ==
  \A t \in Threads : pinged[t] => authed[t]


\* the four awaiting-data flags of the router
AwaitingFlags == {"successCloseOrder", "history_data_ready", "updateStream",
                  "updateHistoryNew"}

\* the JSON value of frame n is a dict that is neither a balance frame nor a
\* buy response
PlainDict(n) ==
  LET d == Frame(n).json IN
  /\ d.kind = "dict"
  /\ "balance" \notin DOMAIN d.v
  /\ ~("requestId" \in DOMAIN d.v /\ d.v.requestId = "buy")

\* f is the only awaiting flag that is set
OnlyFlag(f) == wsc[f] /\ \A g \in AwaitingFlags \ {f} : ~wsc[g]

\* C24: an awaiting flag that is set (the only one set) is reset by a data
\* frame of its structure: a dict for the close-order, history and
\* new-history flags, a list for the stream flag.
C24_FlagResetByMatchingFrame ==
  [][(listener.pc = "handling" /\ listener'.pc = "idle") =>
       /\ (PlainDict(listener.cur) /\ OnlyFlag("successCloseOrder"))
            => ~wsc'.successCloseOrder
       /\ (PlainDict(listener.cur) /\ OnlyFlag("history_data_ready"))
            => ~wsc'.history_data_ready
       /\ (PlainDict(listener.cur) /\ OnlyFlag("updateHistoryNew"))
            => ~wsc'.updateHistoryNew
       /\ (Frame(listener.cur).json.kind = "list" /\ OnlyFlag("updateStream"))
            => ~wsc'.updateStream]_vars


\* the flags and result slots a data frame can be routed to, by handler
SlotGroups == {"balance", "buy", "closeOrder", "history", "historyNew",
               "other"}

\* the handler's flags or slots differ between this state and the next
SlotChanged(g) ==
  CASE g = "balance" ->
         \/ gv'.balance # gv.balance
         \/ gv'.balance_id # gv.balance_id
         \/ gv'.balance_type # gv.balance_type
         \/ gv'.balance_updated # gv.balance_updated
    [] g = "buy" -> gv'.order_data # gv.order_data
    [] g = "closeOrder" ->
         \/ wsc'.successCloseOrder # wsc.successCloseOrder
         \/ apiv'.order_async # apiv.order_async
    [] g = "history" ->
         \/ wsc'.history_data_ready # wsc.history_data_ready
         \/ apiv'.history_data # apiv.history_data
    [] g = "historyNew" ->
         \/ wsc'.updateHistoryNew # wsc.updateHistoryNew
         \/ apiv'.historyNew # apiv.historyNew
    [] g = "other" ->
         \/ wsc'.updateStream # wsc.updateStream
         \/ wsc'.wait_second_message # wsc.wait_second_message
         \/ wsc'.updateClosedDeals # wsc.updateClosedDeals
         \/ apiv'.server_timestamp # apiv.server_timestamp
         \/ gv'.result # gv.result

\* the first handler, in the fixed order, that the dict of frame n matches
FirstMatch(n) ==
  LET d == Frame(n).json IN
  IF "balance" \in DOMAIN d.v THEN "balance"
  ELSE IF "requestId" \in DOMAIN d.v /\ d.v.requestId = "buy" THEN "buy"
  ELSE IF wsc.successCloseOrder THEN "closeOrder"
  ELSE IF wsc.history_data_ready THEN "history"
  ELSE IF wsc.updateHistoryNew THEN "historyNew"
  ELSE "none"

\* C25: a dict data frame changes the flag and slots of at most one handler,
\* the first one it matches in the order balance, buy response, close-order
\* result, history batch, new-history batch; every other flag and slot is
\* left as it was.
C25_OneFrameOneSlot ==
  [][(listener.pc = "handling" /\ listener'.pc = "idle"
       /\ Frame(listener.cur).json.kind = "dict")
     => \A g \in SlotGroups :
          SlotChanged(g) => g = FirstMatch(listener.cur)]_vars

C25_Witness ==
  /\ listener.pc = "idle"
  /\ Len(listener.dispatched) = 3
  /\ {listener.received[1], listener.received[2]} =
       {"successcloseOrder", "loadHistoryPeriod"}
  /\ listener.received[3] = "history_2pts"
  /\ ~wsc.successCloseOrder
  /\ wsc.history_data_ready
  /\ apiv.order_async = Frame("history_2pts").json
  /\ apiv.history_data = PyNone


\* C26: a stream-tick data frame (a JSON list whose first entry carries a
\* server timestamp) handled while the updateStream flag is set updates the
\* time-sync server timestamp to that timestamp.
C26_StreamTickSetsTimestamp ==
  [][(listener.pc = "handling" /\ listener'.pc = "idle"
       /\ wsc.updateStream
       /\ Frame(listener.cur).json.kind = "list")
     => apiv'.server_timestamp = PyNum(Frame(listener.cur).json.v[1][2])]_vars


\* C27: on_message sends the session credential for a frame if and only if
\* the frame's text begins with 40 and contains sid.
C27_CredentialOnlyOnAck ==
  [][(listener.pc = "handling" /\ listener'.pc = "idle")
     => (lastSent' = <<"ssid">>
           <=> /\ StartsWith(Frame(listener.cur).text, T_40)
               /\ Contains(Frame(listener.cur).text, T_sid))]_vars


\* C28: the frames received on a connection are passed to on_message in
\* arrival order, each exactly once, and the listener takes a frame only
\* when on_message has returned for the frame before it.
C28_InOrderExactlyOnce ==
  /\ [](/\ Len(listener.dispatched) <= Len(listener.received)
        /\ \A i \in 1..Len(listener.dispatched) : listener.dispatched[i] = i)
  /\ [][Len(listener'.dispatched) > Len(listener.dispatched)
        => listener.pc = "idle"]_vars

C28_Witness ==
  /\ listener.pc = "handling"
  /\ listener.dispatched = <<1, 2>>
  /\ Len(listener.inbox) = 1
  /\ Head(listener.inbox).seq = 3
  /\ listener.cur = listener.received[2]


\* frame n cannot be parsed (no protocol prefix, not JSON), or is a dict
\* that lacks a field its handler reads: a balance frame without isDemo, a
\* history batch without data
Malformed(n) ==
  LET m == Frame(n) IN
  \/ m.json = NotJson /\ Branch(m) = "none"
  \/ /\ m.json.kind = "dict"
     /\ "balance" \in DOMAIN m.json.v
     /\ "isDemo" \notin DOMAIN m.json.v
  \/ /\ m.json.kind = "dict"
     /\ FirstMatch(n) = "history"
     /\ "data" \notin DOMAIN m.json.v

\* C29: a malformed frame is dropped: the connection stays up and the
\* session data and the awaiting flags are as they were before the frame.
C29_MalformedFrameDropped ==
  [][(listener.pc = "handling" /\ listener'.pc = "idle"
       /\ Malformed(listener.cur))
     => /\ sock' = sock
        /\ websocket_is_connected' = websocket_is_connected
        /\ gv' = gv
        /\ wsc' = wsc
        /\ apiv' = apiv]_vars


\* C30: every candle of the series of get_candles' resample pass belongs to
\* a bucket in which a point falls, and carries values.
C30_NoFabricatedBuckets ==
  (agg.pc = "done" /\ agg.candles.kind = "list") =>
    \A i \in 1..Len(agg.candles.v) :
      /\ ~agg.candles.v[i].nan
      /\ \E j \in 1..Len(agg.points) :
           /\ agg.candles.v[i].time <= agg.points[j].time
           /\ agg.points[j].time < agg.candles.v[i].time + agg.period


\* C31: the candle cache never holds a failure result; when get_candles
\* returned its failure result (None) for a key, the key is not in the cache
\* when the fetch ends, and the next lookup for the key is not served from
\* the cache but calls upstream again.
C31_CacheOnlyOnSuccess ==
  /\ [](\A k \in CacheKeys :
          candle_cache[k].present => candle_cache[k].value = "DataFrame")
  /\ [][(ci.pc = "call" /\ ci'.done /\ ci'.got[ci.key] = "None")
        => ~(/\ candle_cache'[ci.key].present
             /\ mono' < candle_cache'[ci.key].expires)]_vars
  /\ [][(ci.pc = "idle" /\ opsLeft' < opsLeft /\ ci.got[ci'.key] = "None")
        => (ci'.pc = "call" /\ ~ci'.hit)]_vars

C31_Witness ==
  /\ ci.pc = "call"
  /\ ci.got[ci.key] = "None"
  /\ ci.requests = 0
  /\ ~candle_cache[ci.key].present


\* C32: a calculate_indicators call for a key for which a bundle was stored
\* less than the TTL (5 x timeframe) ago is served from the indicator cache.
C32_BundleServedFromCache ==
  (ind.calls > 0 /\ ind.fresh) => ind.hit


\* C33: concurrent candle lookups for one key never have two upstream
\* fetches in flight at a time, and make one upstream fetch in all.
C33_SameKeyFetchCollapses ==
  /\ \A k \in CacheKeys :
       Cardinality({c \in Callers :
                      cc.task[c] = "fetching" /\ cc.key[c] = k}) <= 1
  /\ \A k \in CacheKeys : cc.upstream[k] <= 1

\* C34: when two buy calls overlap on one session, one completion is
\* observed by one waiter only: two calls that both return an accepted order
\* never took their result from the same buy response frame
C34_OneCompletionOneWaiter ==
  \A a, b \in Buyers :
    ( /\ a # b
      /\ ob.pc[a] = "returned" /\ ob.ret[a].accepted = PyBool(TRUE)
      /\ ob.pc[b] = "returned" /\ ob.ret[b].accepted = PyBool(TRUE) )
    => ob.from[a] # ob.from[b]

\* C35: an accepted buy call returns the id of the order its own command
\* opened, never that of an earlier call whose answer arrives late
C35_OwnOrderId ==
  (bpc = "returned" /\ bret.accepted = PyBool(TRUE))
    => bret.id = PyStr(OrderIdOf(CommandsSent))

\* C36: a check_win(X) call made after a close-order result with a terminal
\* record for X was delivered returns win or lose, win exactly when the
\* profit of a delivered record for X is > 0, wherever the record stood in
\* the deals list and whatever results for other orders came after it
C36_DeliveredOrderIsSettled ==
  (cw.pc = "returned" /\ \E r \in closed : r.id = cw.id_number)
    => \E r \in closed :
         /\ r.id = cw.id_number
         /\ cw.ret.status = IF r.profit.v > 0 THEN "win" ELSE "lose"

\* C37: check_connection returns True only while the session is connected:
\* a call made when no socket is open, or when the connected flag is false,
\* returns False whatever balance was received before
C37_TrueOnlyWhileConnected ==
  (chk.called /\ chk.ret) => (chk.open /\ chk.flag)

RiskStopTripped(s) ==
  \/ s.consecutive_losses >= 3
  \/ /\ s.initial_daily_balance > 0
     /\ s.daily_loss * 100 >= DAILY_LOSS_LIMIT * s.initial_daily_balance

C40_PauseInLowLiquidityWindow ==
  ml.n > 0 => (ml.did = "pause" <=> ml.utc_hour \in {22, 23, 0, 1, 2})

====
